---- MODULE Spec2Model ----
(***************************************************************************)
(* EmulationController: a host-side relay controller.                      *)
(*                                                                         *)
(* The module models LinkedBlockingQueue<Command> at the granularity of    *)
(* its std::mutex / std::condition_variable operations, and the threads of *)
(* Controller (sender, receivers, the shell loop of run()) that use it.    *)
(*                                                                         *)
(* Two next-state relations share the queue's actions:                     *)
(*   QSpec  - the queue alone, driven by producer threads calling offer    *)
(*            and consumer threads calling poll / pollWithTimeout;         *)
(*   Spec   - the controller: run() starts the sender and the receivers,   *)
(*            and reads shell commands.                                    *)
(* QFairSpec and FairSpec are the same with the threads scheduled fairly,  *)
(* for the liveness properties.                                            *)
(***************************************************************************)
EXTENDS Naturals, Sequences, FiniteSets

VARIABLES
    \* ---- LinkedBlockingQueue ----
    queue,      \* std::queue<Element> queue
    mutex,      \* std::mutex mutex: the thread that owns it, or NoThread
    waiting,    \* threads blocked inside nonempty.wait / wait_for
    \* ---- per-thread control state and locals ----
    pc,         \* where each thread is
    arg,        \* offer's parameter `element` (an optional)
    element,    \* poll's local `element` (an optional)
    got,        \* what the thread's last poll / pollWithTimeout returned
    expired,    \* the deadline of the thread's pollWithTimeout has passed
    timedout,   \* the thread's last wait_until returned cv_status::timeout
    spurious,   \* number of spurious wake-ups so far
    \* ---- history of the queue ----
    offered,    \* elements in the order their push took effect
    polled,     \* elements in the order poll / pollWithTimeout returned them
    inCS,       \* threads between locking and unlocking the mutex
    sawEmpty,   \* pollWithTimeout: the queue was empty at the call's first check
    early,      \* pollWithTimeout: a push took effect in the call before its deadline
    late,       \* pollWithTimeout: a push took effect in the call after its deadline
    enq,        \* what each thread has pushed since it last took an input
    nOffers,    \* QSpec: number of offer calls made so far
    \* ---- Controller ----
    env,        \* what the devices send, what is typed, which calls may fail
    procState,  \* "running", or how the process ended
    bound,      \* sockets[i] holds a socket
    buffer,     \* receiver's local `buffer`, read as a Message (an optional)
    garbage,    \* outcomes of the 15-byte preamble reads made on each socket
    nRecv,      \* message reads made on each socket
    nShell,     \* lines read by the shell loop of run()
    sent,       \* per socket, the sender thread's send calls and their results
    dropped,    \* commands the sender ignored: destination not connected
    readers,    \* per socket, the threads that have called a receive on it
    writers,    \* per socket, the threads that have called send on it
    \* ---- the gateway round trip ----
    gwio,       \* the calls sendRecvCoAPMessage made on sockets[kGateway]
    trials,     \* ExecutionTimeMeasurer: `trials` of the experiment running, or 0
    trial,      \* ExecutionTimeMeasurer: the loop counter `trial`
    durations,  \* Result::durations
    report,     \* what runGatewayExperiment printed last (an optional)
    \* ---- makeCoAPRequestMessage ----
    request,    \* the 32-byte buffer being filled / the request built
    ptr,        \* `ptr`, as an offset into the buffer
    moisture,   \* the parameter `moisture`
    host        \* the build: byte order and bit-field allocation order

\* what no operation of the queue touches
\* the threads' use of the sockets
access == <<readers, writers>>

\* the state of a gateway round trip or experiment
gateway == <<gwio, trials, trial, durations, report>>

\* the state of the CoAP encoder
encoder == <<request, ptr, moisture, host>>

others == <<nOffers, env, procState, bound, buffer, garbage, nRecv, nShell, sent, dropped,
            access, gateway, encoder>>

vars == <<queue, mutex, waiting, pc, arg, element, got, expired, timedout,
          spurious, offered, polled, inCS, sawEmpty, early, late, enq,
          nOffers, env, procState, bound, buffer, garbage, nRecv, nShell, sent,
          dropped, readers, writers, gwio, trials, trial, durations, report,
          request, ptr, moisture, host>>

----------------------------------------------------------------------------
(* Bounds of the model *)

\* spurious wake-ups of condition-variable waits over a run
MaxSpurious == 1
\* offer calls made by the producers of QSpec
MaxOffers == 2
\* messages read and lines typed over a run, when several sources are active
MaxInputs == 2
\* messages read or lines typed over a run, when one source gives any input
MaxTalk == 1
\* a moisture level typed at the shell (`soil 30`)
ShellLevels == {30}

----------------------------------------------------------------------------
(* Values *)

NoThread == "nobody"

\* std::optional: nullopt and a value
None == <<>>
Some(e) == <<e>>
Value(o) == o[1]

\* Message::magic accepted by the receiver (0x4657)
Magic == 18007
\* a magic the receiver rejects
BadMagic == 0

\* Message::Type: the tags the receiver's switch names, the two outbound tags,
\* and a tag outside the enumeration
LogTypes ==
    {"MoistureUserStack", "ActuatorUserStack", "GateWayUserStack", "RunOutOfWaterAlert"}
AlertTypes == {"SoilDryAlert", "SoilWetAlert"}
AckTypes == {"AckSoilWet"}
OutboundTypes == {"ChangeSoilMoisture", "ChangeWaterStatus"}
MsgTypes == LogTypes \cup AlertTypes \cup AckTypes \cup OutboundTypes \cup {"Unknown"}

\* Message::data values on the wire
MsgData == {0, 1}

\* struct Message { magic; type; data; }
MakeMessage(magic, type, data) == [magic |-> magic, type |-> type, data |-> data]

\* what a device may put on a socket: the relayed types with each data value,
\* every other type, and every type under a wrong magic
WireMessages ==
    {MakeMessage(Magic, ty, d) : ty \in AlertTypes \cup AckTypes, d \in MsgData}
        \cup {MakeMessage(m, ty, 0) : m \in {Magic, BadMagic}, ty \in MsgTypes}

\* the kinds of message a device may send: relayed or not, accepted or not
WireClasses ==
    {{w \in WireMessages : w.magic = m /\ w.type \in T} :
        m \in {Magic, BadMagic},
        T \in {AlertTypes \cup AckTypes, MsgTypes \ (AlertTypes \cup AckTypes)}}

\* a Command: { Message message; SocketIndex index; }
MakeCommand(message, index) == [message |-> message, index |-> index]

\* the producers' elements of QSpec: the n-th offered Command carries n
QElement(n) == MakeCommand(MakeMessage(Magic, "ChangeSoilMoisture", n), "Monitor")

\* what std::queue::front() yields on an empty queue (undefined behaviour):
\* an object that was never offered
Garbage == MakeCommand(MakeMessage(BadMagic, "Garbage", 0), "Monitor")

\* the builds: the byte order of the machine, and whether the compiler
\* allocates the bit-fields of a byte from its low bits or from its high bits
LittleEndian == [order |-> "little", bits |-> "low"]
BigEndian == [order |-> "big", bits |-> "high"]
Hosts == {LittleEndian, BigEndian}

\* enum SocketIndex
Slots == {"Monitor", "Actuator", "Gateway"}

\* the receiver threads of run(), and the socket each reads
Receivers == {"mReceiver", "aReceiver"}
SocketOf(r) == IF r = "mReceiver" THEN "Monitor" ELSE "Actuator"

Producers == {"p1", "p2"}
Consumers == {"c1", "c2"}
QThreads == Producers \cup Consumers

Threads == DOMAIN pc

----------------------------------------------------------------------------
(* std::queue *)

\* a push at the wrong end
Push_Front(q, e) == <<e>> \o q

Push(q, e) == Append(q, e)

Empty(q) == Len(q) = 0

\* a front() that yields the newest element
Front_Newest(q) == IF Empty(q) THEN Garbage ELSE q[Len(q)]

Front(q) == IF Empty(q) THEN Garbage ELSE Head(q)

\* a pop() that removes nothing
Pop_Keeps(q) == q

Pop(q) == IF Empty(q) THEN q ELSE Tail(q)

\* a wait that takes any wake-up for a non-empty queue
NonEmptyPred_AnyWakeup(q) == TRUE

\* the predicate of nonempty.wait / wait_for
NonEmptyPred(q) == ~Empty(q)

----------------------------------------------------------------------------
(* where a thread continues when a queue operation returns *)

\* offer is called by the receivers' loop, the shell loop and QSpec's producers
AfterOffer(t) ==
    IF t \in Receivers THEN "rcv_loop"
    ELSE IF t = "main" THEN "sh_prompt"
    ELSE "idle"

\* a sender that polls again without sending
AfterPoll_Discard(t) == IF t = "sender" THEN "poll_lock" ELSE "idle"

\* poll is called by the sender's loop and QSpec's consumers
AfterPoll(t) == IF t = "sender" THEN "snd_send" ELSE "idle"

----------------------------------------------------------------------------
(* threads take steps while the process runs *)

Running == procState = "running"

\* thread t is about to execute l
At(t, l) == Running /\ pc[t] = l

----------------------------------------------------------------------------
(* std::mutex, std::condition_variable *)

\* a lock that does not wait for the owner to unlock
Lock_NoWait(t) ==
    /\ mutex' = t
    /\ inCS' = inCS \cup {t}

Lock(t) ==
    /\ mutex = NoThread
    /\ mutex' = t
    /\ inCS' = inCS \cup {t}

Unlock(t) ==
    /\ mutex' = NoThread
    /\ inCS' = inCS \ {t}

\* condition_variable::wait: release the mutex and block, atomically
CvWait(t) ==
    /\ mutex' = NoThread
    /\ inCS' = inCS \ {t}
    /\ waiting' = waiting \cup {t}

\* condition_variable::wait_until: as wait, but a deadline that has passed
\* does not block
CvWaitUntil(t) ==
    /\ mutex' = NoThread
    /\ inCS' = inCS \ {t}
    /\ waiting' = IF expired[t] THEN waiting ELSE waiting \cup {t}

\* an offer that notifies nobody
NotifyAll_Nobody(w) == w

\* the threads still blocked after notify_all(): none
NotifyAll(w) == {}

\* a push that takes effect is seen by every pollWithTimeout call in progress
InTimedCall(t) ==
    pc[t] \in {"pwt_check", "pwt_wait", "pwt_front", "pwt_pop", "pwt_some", "pwt_none"}

NoteOffer ==
    /\ early' = [t \in Threads |->
                    IF InTimedCall(t) /\ ~expired[t] THEN TRUE ELSE early[t]]
    /\ late' = [t \in Threads |->
                    IF pc[t] \in {"pwt_check", "pwt_wait"} /\ expired[t]
                    THEN TRUE ELSE late[t]]

----------------------------------------------------------------------------
(* LinkedBlockingQueue::offer *)

\* std::lock_guard<std::mutex> lockGuard(this->mutex)
OfferLock(t) ==
    /\ At(t, "offer_lock")
    /\ Lock(t)
    /\ pc' = [pc EXCEPT ![t] = "offer_push"]
    /\ UNCHANGED <<queue, waiting, arg, element, got, expired, timedout,
                   spurious, offered, polled, sawEmpty, early, late, enq, others>>

\* this->queue.push(std::move(element))
OfferPush(t) ==
    /\ At(t, "offer_push")
    /\ queue' = Push(queue, Value(arg[t]))
    /\ offered' = Append(offered, Value(arg[t]))
    /\ enq' = [enq EXCEPT ![t] = Append(@, Value(arg[t]))]
    /\ NoteOffer
    /\ pc' = [pc EXCEPT ![t] = "offer_notify"]
    /\ UNCHANGED <<mutex, waiting, arg, element, got, expired, timedout,
                   spurious, polled, inCS, sawEmpty, others>>

\* this->nonempty.notify_all()
OfferNotify(t) ==
    /\ At(t, "offer_notify")
    /\ waiting' = NotifyAll(waiting)
    /\ pc' = [pc EXCEPT ![t] = "offer_unlock"]
    /\ UNCHANGED <<queue, mutex, arg, element, got, expired, timedout,
                   spurious, offered, polled, inCS, sawEmpty, early, late, enq, others>>

\* the destructor of lockGuard; offer returns
OfferUnlock(t) ==
    /\ At(t, "offer_unlock")
    /\ Unlock(t)
    /\ arg' = [arg EXCEPT ![t] = None]
    /\ pc' = [pc EXCEPT ![t] = AfterOffer(t)]
    /\ UNCHANGED <<queue, waiting, element, got, expired, timedout,
                   spurious, offered, polled, sawEmpty, early, late, enq, others>>

----------------------------------------------------------------------------
(* LinkedBlockingQueue::poll *)

\* std::unique_lock<std::mutex> lock(this->mutex)
PollLock(t) ==
    /\ At(t, "poll_lock")
    /\ Lock(t)
    /\ pc' = [pc EXCEPT ![t] = "poll_check"]
    /\ UNCHANGED <<queue, waiting, arg, element, got, expired, timedout,
                   spurious, offered, polled, sawEmpty, early, late, enq, others>>

\* nonempty.wait(lock, pred): while (!pred()) wait(lock);
PollCheck(t) ==
    /\ At(t, "poll_check")
    /\ IF NonEmptyPred(queue)
       THEN /\ pc' = [pc EXCEPT ![t] = "poll_front"]
            /\ UNCHANGED <<mutex, waiting, inCS>>
       ELSE /\ CvWait(t)
            /\ pc' = [pc EXCEPT ![t] = "poll_wait"]
    /\ UNCHANGED <<queue, arg, element, got, expired, timedout,
                   spurious, offered, polled, sawEmpty, early, late, enq, others>>

\* wait(lock) returns: the woken thread has the mutex again
PollWake(t) ==
    /\ At(t, "poll_wait")
    /\ t \notin waiting
    /\ Lock(t)
    /\ pc' = [pc EXCEPT ![t] = "poll_check"]
    /\ UNCHANGED <<queue, waiting, arg, element, got, expired, timedout,
                   spurious, offered, polled, sawEmpty, early, late, enq, others>>

\* Element element = std::move(this->queue.front())
PollFront(t) ==
    /\ At(t, "poll_front")
    /\ element' = [element EXCEPT ![t] = Some(Front(queue))]
    /\ pc' = [pc EXCEPT ![t] = "poll_pop"]
    /\ UNCHANGED <<queue, mutex, waiting, arg, got, expired, timedout,
                   spurious, offered, polled, inCS, sawEmpty, early, late, enq, others>>

\* this->queue.pop()
PollPop(t) ==
    /\ At(t, "poll_pop")
    /\ queue' = Pop(queue)
    /\ pc' = [pc EXCEPT ![t] = "poll_return"]
    /\ UNCHANGED <<mutex, waiting, arg, element, got, expired, timedout,
                   spurious, offered, polled, inCS, sawEmpty, early, late, enq, others>>

\* return element; the destructor of lock releases the mutex
PollReturn(t) ==
    /\ At(t, "poll_return")
    /\ Unlock(t)
    /\ got' = [got EXCEPT ![t] = element[t]]
    /\ polled' = Append(polled, Value(element[t]))
    /\ element' = [element EXCEPT ![t] = None]
    /\ pc' = [pc EXCEPT ![t] = AfterPoll(t)]
    /\ UNCHANGED <<queue, waiting, arg, expired, timedout,
                   spurious, offered, sawEmpty, early, late, enq, others>>

----------------------------------------------------------------------------
(* LinkedBlockingQueue::pollWithTimeout *)

\* the call is over: its deadline and what it saw are no more
TimedDone(t) ==
    /\ expired' = [expired EXCEPT ![t] = FALSE]
    /\ timedout' = [timedout EXCEPT ![t] = FALSE]
    /\ sawEmpty' = [sawEmpty EXCEPT ![t] = FALSE]
    /\ early' = [early EXCEPT ![t] = FALSE]
    /\ late' = [late EXCEPT ![t] = FALSE]

\* std::unique_lock<std::mutex> lock(this->mutex); the deadline starts to run
TimedLock(t) ==
    /\ At(t, "pwt_lock")
    /\ Lock(t)
    /\ expired' = [expired EXCEPT ![t] = FALSE]
    /\ timedout' = [timedout EXCEPT ![t] = FALSE]
    /\ sawEmpty' = [sawEmpty EXCEPT ![t] = Empty(queue)]
    /\ early' = [early EXCEPT ![t] = FALSE]
    /\ late' = [late EXCEPT ![t] = FALSE]
    /\ pc' = [pc EXCEPT ![t] = "pwt_check"]
    /\ UNCHANGED <<queue, waiting, arg, element, got, spurious, offered, polled, enq, others>>

\* a wait_for whose time-out is taken for an empty queue, the predicate not
\* evaluated again
TimedCheck_TimeoutFirst(t) ==
    /\ At(t, "pwt_check")
    /\ IF timedout[t]
       THEN /\ pc' = [pc EXCEPT ![t] = "pwt_none"]
            /\ UNCHANGED <<mutex, waiting, inCS>>
       ELSE IF NonEmptyPred(queue)
       THEN /\ pc' = [pc EXCEPT ![t] = "pwt_front"]
            /\ UNCHANGED <<mutex, waiting, inCS>>
       ELSE /\ CvWaitUntil(t)
            /\ pc' = [pc EXCEPT ![t] = "pwt_wait"]
    /\ UNCHANGED <<queue, arg, element, got, expired, timedout,
                   spurious, offered, polled, sawEmpty, early, late, enq, others>>

\* a pollWithTimeout that removes the head before it looks at the result of
\* the wait, and returns the empty result on a time-out
TimedCheck_DiscardsHead(t) ==
    /\ At(t, "pwt_check")
    /\ IF timedout[t]
       THEN /\ queue' = Pop(queue)
            /\ pc' = [pc EXCEPT ![t] = "pwt_none"]
            /\ UNCHANGED <<mutex, waiting, inCS>>
       ELSE IF NonEmptyPred(queue)
       THEN /\ pc' = [pc EXCEPT ![t] = "pwt_front"]
            /\ UNCHANGED <<queue, mutex, waiting, inCS>>
       ELSE /\ CvWaitUntil(t)
            /\ pc' = [pc EXCEPT ![t] = "pwt_wait"]
            /\ UNCHANGED queue
    /\ UNCHANGED <<arg, element, got, expired, timedout,
                   spurious, offered, polled, sawEmpty, early, late, enq, others>>

\* nonempty.wait_for(lock, timeout, predicate):
\*   while (!pred()) if (wait_until(lock, deadline) == timeout) return pred();
\*   return true;
TimedCheck(t) ==
    /\ At(t, "pwt_check")
    /\ IF NonEmptyPred(queue)
       THEN /\ pc' = [pc EXCEPT ![t] = "pwt_front"]
            /\ UNCHANGED <<mutex, waiting, inCS>>
       ELSE IF timedout[t]
       THEN /\ pc' = [pc EXCEPT ![t] = "pwt_none"]
            /\ UNCHANGED <<mutex, waiting, inCS>>
       ELSE /\ CvWaitUntil(t)
            /\ pc' = [pc EXCEPT ![t] = "pwt_wait"]
    /\ UNCHANGED <<queue, arg, element, got, expired, timedout,
                   spurious, offered, polled, sawEmpty, early, late, enq, others>>

\* the deadline of the call passes; a thread blocked in wait_until is released
Expire(t) ==
    /\ Running
    /\ InTimedCall(t)
    /\ pc[t] \in {"pwt_check", "pwt_wait"}
    /\ ~expired[t]
    /\ expired' = [expired EXCEPT ![t] = TRUE]
    /\ waiting' = waiting \ {t}
    /\ UNCHANGED <<queue, mutex, pc, arg, element, got, timedout,
                   spurious, offered, polled, inCS, sawEmpty, early, late, enq, others>>

\* wait_until returns: the mutex is held again, and the status tells whether
\* the deadline has passed
TimedWake(t) ==
    /\ At(t, "pwt_wait")
    /\ t \notin waiting
    /\ Lock(t)
    /\ timedout' = [timedout EXCEPT ![t] = expired[t]]
    /\ pc' = [pc EXCEPT ![t] = "pwt_check"]
    /\ UNCHANGED <<queue, waiting, arg, element, got, expired,
                   spurious, offered, polled, sawEmpty, early, late, enq, others>>

\* Element element = std::move(this->queue.front())
TimedFront(t) ==
    /\ At(t, "pwt_front")
    /\ element' = [element EXCEPT ![t] = Some(Front(queue))]
    /\ pc' = [pc EXCEPT ![t] = "pwt_pop"]
    /\ UNCHANGED <<queue, mutex, waiting, arg, got, expired, timedout,
                   spurious, offered, polled, inCS, sawEmpty, early, late, enq, others>>

\* this->queue.pop()
TimedPop(t) ==
    /\ At(t, "pwt_pop")
    /\ queue' = Pop(queue)
    /\ pc' = [pc EXCEPT ![t] = "pwt_some"]
    /\ UNCHANGED <<mutex, waiting, arg, element, got, expired, timedout,
                   spurious, offered, polled, inCS, sawEmpty, early, late, enq, others>>

\* return std::make_optional(std::move(element))
TimedReturnSome(t) ==
    /\ At(t, "pwt_some")
    /\ Unlock(t)
    /\ got' = [got EXCEPT ![t] = element[t]]
    /\ polled' = Append(polled, Value(element[t]))
    /\ element' = [element EXCEPT ![t] = None]
    /\ pc' = [pc EXCEPT ![t] = AfterPoll(t)]
    /\ TimedDone(t)
    /\ UNCHANGED <<queue, waiting, arg, spurious, offered, enq, others>>

\* return std::nullopt
TimedReturnNone(t) ==
    /\ At(t, "pwt_none")
    /\ Unlock(t)
    /\ got' = [got EXCEPT ![t] = None]
    /\ pc' = [pc EXCEPT ![t] = AfterPoll(t)]
    /\ TimedDone(t)
    /\ UNCHANGED <<queue, waiting, arg, element, spurious, offered, polled, enq, others>>

\* a condition-variable wait may return without a notification
SpuriousWake(t) ==
    /\ Running
    /\ t \in waiting
    /\ spurious < MaxSpurious
    /\ spurious' = spurious + 1
    /\ waiting' = waiting \ {t}
    /\ UNCHANGED <<queue, mutex, pc, arg, element, got, expired, timedout,
                   offered, polled, inCS, sawEmpty, early, late, enq, others>>

----------------------------------------------------------------------------
(* the state after construction of the queue and of the threads' locals *)

QueueInit ==
    /\ queue = <<>>
    /\ mutex = NoThread
    /\ waiting = {}
    /\ spurious = 0
    /\ offered = <<>>
    /\ polled = <<>>
    /\ inCS = {}

LocalsInit(T) ==
    /\ arg = [t \in T |-> None]
    /\ element = [t \in T |-> None]
    /\ got = [t \in T |-> None]
    /\ expired = [t \in T |-> FALSE]
    /\ timedout = [t \in T |-> FALSE]
    /\ sawEmpty = [t \in T |-> FALSE]
    /\ early = [t \in T |-> FALSE]
    /\ late = [t \in T |-> FALSE]
    /\ enq = [t \in T |-> <<>>]

----------------------------------------------------------------------------
(* Controller::Command factories *)

\* Message's factories (Message.hpp is not among the sources: after the
\* specification, a factory fills magic, type and data, a boolean widened to
\* the width of data)
MessageChangeSoilMoisture(level) == MakeMessage(Magic, "ChangeSoilMoisture", level)
MessageChangeWaterStatus(hasWater) == MakeMessage(Magic, "ChangeWaterStatus", hasWater)
MessageSoilDryAlert == MakeMessage(Magic, "SoilDryAlert", 0)
MessageSoilWetAlert == MakeMessage(Magic, "SoilWetAlert", 0)

\* a relay that names the wrong device
relayMessageToSensorDevice_Actuator(message) == MakeCommand(message, "Actuator")

relayMessageToSensorDevice(message) == MakeCommand(message, "Monitor")

\* a relay that names the wrong device
relayMessageToActuatorDevice_Monitor(message) == MakeCommand(message, "Monitor")

relayMessageToActuatorDevice(message) == MakeCommand(message, "Actuator")

changeSoilMoisture(level) == MakeCommand(MessageChangeSoilMoisture(level), "Monitor")

\* a water command addressed to the gateway
changeWaterStatus_Gateway(hasWater) == MakeCommand(MessageChangeWaterStatus(hasWater), "Gateway")

changeWaterStatus(hasWater) == MakeCommand(MessageChangeWaterStatus(hasWater), "Actuator")

sendDrySoilAlertToActuatorDevice == MakeCommand(MessageSoilDryAlert, "Actuator")

sendWetSoilAlertToActuatorDevice == MakeCommand(MessageSoilWetAlert, "Actuator")

----------------------------------------------------------------------------
(* the results a call on the socket of slot s may have *)

\* messages read and lines typed so far
\* thread t calls a receive on socket s
NoteRead(s, t) ==
    /\ readers' = [readers EXCEPT ![s] = @ \cup {t}]
    /\ UNCHANGED writers

\* thread t calls send on socket s
NoteWrite(s, t) ==
    /\ writers' = [writers EXCEPT ![s] = @ \cup {t}]
    /\ UNCHANGED readers

Inputs == nRecv["Monitor"] + nRecv["Actuator"] + nShell

Outcomes(s) == IF s \in env.faulty THEN BOOLEAN ELSE {TRUE}

----------------------------------------------------------------------------
(* Controller::makeCoAPRequestMessage *)

\* a uint32_t, as its two 16-bit halves
U32(hi, lo) == [hi |-> hi, lo |-> lo]

\* a | b on non-negative integers
RECURSIVE BitOr(_, _)
BitOr(a, b) ==
    IF a = 0 THEN b
    ELSE IF b = 0 THEN a
    ELSE (IF a % 2 = 1 \/ b % 2 = 1 THEN 1 ELSE 0) + 2 * BitOr(a \div 2, b \div 2)

\* a << n
RECURSIVE Shl(_, _)
Shl(a, n) == IF n = 0 THEN a ELSE Shl(2 * a, n - 1)

\* the conversion of an integer to uint8_t
U8(x) == x % 256

\* the bytes of a uint16_t in the memory of a machine of the given byte order
Store16(x, order) ==
    IF order = "little" THEN <<x % 256, x \div 256>> ELSE <<x \div 256, x % 256>>

\* the bytes of a uint32_t in the memory of a machine of the given byte order
Store32(v, order) ==
    IF order = "little"
    THEN Store16(v.lo, order) \o Store16(v.hi, order)
    ELSE Store16(v.hi, order) \o Store16(v.lo, order)

\* htons: the value whose bytes in memory are x's, most significant first
htons(x, order) ==
    IF order = "little" THEN (x % 256) * 256 + (x \div 256) ELSE x

\* memcpy(buffer + offset, bytes, Len(bytes))
Memcpy(buf, offset, bytes) ==
    [i \in 1..Len(buf) |->
        IF i > offset /\ i <= offset + Len(bytes) THEN bytes[i - offset] ELSE buf[i]]

\* enum values of CoAP.hpp: the POST code and the option numbers
kPost == 2
kURIHost == 3
kURIPort == 7
kURIPath == 11

\* sizeof(CoAPHeader)
SizeofCoAPHeader == 4

\* struct CoAPHeader with version, type, tokenLength, code and msgID set:
\* the first byte holds the bit-fields version : 2, type : 2, tokenLength : 4
CoAPHeader(version, type, tokenLength, code, msgID, h) ==
    << IF h.bits = "low"
       THEN version + 4 * type + 16 * tokenLength
       ELSE 64 * version + 16 * type + tokenLength,
       code >> \o Store16(msgID, h.order)

\* "localhost" and "/moisture" as chars
Address == <<108, 111, 99, 97, 108, 104, 111, 115, 116>>
Path == <<47, 109, 111, 105, 115, 116, 117, 114, 101>>

\* the port of the gateway's server
Port == 10086

\* the state of the function: the buffer and ptr, an offset into it
Enc(buf, p) == [buffer |-> buf, ptr |-> p]

\* lines 251-263: the header
PutHeader(e, h) ==
    Enc(Memcpy(e.buffer, e.ptr, CoAPHeader(1, 1, 0, kPost, Magic, h)),
        e.ptr + SizeofCoAPHeader)

\* one option: the byte delta << 4 | length, then the literal bytes
PutOption(e, delta, bytes) ==
    Enc(Memcpy(e.buffer, e.ptr, <<U8(BitOr(Shl(delta, 4), Len(bytes)))>> \o bytes),
        e.ptr + 1 + Len(bytes))

\* lines 266-274: the option URI-Host
PutHost(e) == PutOption(e, kURIHost, Address)

\* a port option that stores the port as the machine holds it
PutPort_NativeOrder(e, h) == PutOption(e, kURIPort - kURIHost, Store16(Port, h.order))

\* lines 277-281: the option URI-Port
PutPort(e, h) == PutOption(e, kURIPort - kURIHost, Store16(htons(Port, h.order), h.order))

\* lines 284-292: the option URI-Path
PutPath(e) == PutOption(e, kURIPath - kURIPort, Path)

\* lines 295-297: the end of the options
PutMarker(e) == Enc(Memcpy(e.buffer, e.ptr, <<255>>), e.ptr + 1)

\* a payload stored most significant byte first
PutPayload_NetworkOrder(e, v, h) == Enc(Memcpy(e.buffer, e.ptr, Store32(v, "big")), e.ptr + 4)

\* lines 300-302: the payload
PutPayload(e, v, h) == Enc(Memcpy(e.buffer, e.ptr, Store32(v, h.order)), e.ptr + 4)

\* the whole function, for a caller that does not look inside
makeCoAPRequestMessage(buf, v, h) ==
    PutPayload(PutMarker(PutPath(PutPort(PutHost(PutHeader(Enc(buf, 0), h)), h))), v, h)

\* uint8_t request[32] = {}
Zeroed == [i \in 1..32 |-> 0]

\* uint8_t request[32], not initialised: some bytes
Stale == [i \in 1..32 |-> 170]

\* the steps of the function, on the variables request and ptr
EncStep(from, to, e) ==
    /\ At("main", from)
    /\ request' = e.buffer
    /\ ptr' = e.ptr
    /\ pc' = [pc EXCEPT !["main"] = to]
    /\ UNCHANGED <<queue, mutex, waiting, arg, element, got, expired, timedout,
                   spurious, offered, polled, inCS, sawEmpty, early, late, enq,
                   nOffers, env, procState, bound, buffer, garbage, nRecv, nShell,
                   sent, dropped, access, gateway, moisture, host>>

EncHeader == EncStep("enc_header", "enc_host", PutHeader(Enc(request, ptr), host))
EncHost == EncStep("enc_host", "enc_port", PutHost(Enc(request, ptr)))
EncPort == EncStep("enc_port", "enc_path", PutPort(Enc(request, ptr), host))
EncPath == EncStep("enc_path", "enc_marker", PutPath(Enc(request, ptr)))
EncMarker == EncStep("enc_marker", "enc_payload", PutMarker(Enc(request, ptr)))
EncPayload == EncStep("enc_payload", "enc_assert", PutPayload(Enc(request, ptr), moisture, host))

\* passert(ptr - buffer == 32, ...)
EncAssert ==
    /\ At("main", "enc_assert")
    /\ IF ptr = 32
       THEN pc' = [pc EXCEPT !["main"] = "enc_done"] /\ UNCHANGED procState
       ELSE procState' = "aborted" /\ UNCHANGED pc
    /\ UNCHANGED <<queue, mutex, waiting, arg, element, got, expired, timedout,
                   spurious, offered, polled, inCS, sawEmpty, early, late, enq,
                   nOffers, env, bound, buffer, garbage, nRecv, nShell,
                   sent, dropped, access, gateway, encoder>>

----------------------------------------------------------------------------
(* Controller::sender *)

\* a sender that does not test the socket of the command
SenderSend_WritesUnbound ==
    /\ At("sender", "snd_send")
    /\ LET command == Value(got["sender"])
       IN  /\ \E ok \in Outcomes(command.index) :
                  sent' = [sent EXCEPT ![command.index] =
                              Append(@, [message |-> command.message, ok |-> ok])]
           /\ NoteWrite(command.index, "sender")
    /\ got' = [got EXCEPT !["sender"] = None]
    /\ pc' = [pc EXCEPT !["sender"] = "poll_lock"]
    /\ UNCHANGED <<queue, mutex, waiting, arg, element, expired, timedout,
                   spurious, offered, polled, inCS, sawEmpty, early, late, enq,
                   nOffers, env, procState, bound, buffer, garbage, nRecv, nShell,
                   dropped,
                   gateway, encoder>>

\* a sender whose loop ends when a send fails
SenderSend_StopsOnFailure ==
    /\ At("sender", "snd_send")
    /\ LET command == Value(got["sender"])
       IN  IF bound[command.index]
           THEN \E ok \in Outcomes(command.index) :
                   /\ sent' = [sent EXCEPT ![command.index] =
                                  Append(@, [message |-> command.message, ok |-> ok])]
                   /\ pc' = [pc EXCEPT !["sender"] = IF ok THEN "poll_lock" ELSE "snd_exit"]
                   /\ NoteWrite(command.index, "sender")
                   /\ UNCHANGED dropped
           ELSE /\ dropped' = Append(dropped, command)
                /\ pc' = [pc EXCEPT !["sender"] = "poll_lock"]
                /\ UNCHANGED <<sent, access>>
    /\ got' = [got EXCEPT !["sender"] = None]
    /\ UNCHANGED <<queue, mutex, waiting, arg, element, expired, timedout,
                   spurious, offered, polled, inCS, sawEmpty, early, late, enq,
                   nOffers, env, procState, bound, buffer, garbage, nRecv, nShell,
                   gateway, encoder>>

\* the body of the loop after poll() returned `command`
SenderSend ==
    /\ At("sender", "snd_send")
    /\ LET command == Value(got["sender"])
       IN  IF bound[command.index]
           THEN \E ok \in Outcomes(command.index) :
                   /\ sent' = [sent EXCEPT ![command.index] =
                                  Append(@, [message |-> command.message, ok |-> ok])]
                   /\ NoteWrite(command.index, "sender")
                   /\ UNCHANGED dropped
           ELSE /\ dropped' = Append(dropped, command)
                /\ UNCHANGED <<sent, access>>
    /\ got' = [got EXCEPT !["sender"] = None]
    /\ pc' = [pc EXCEPT !["sender"] = "poll_lock"]
    /\ UNCHANGED <<queue, mutex, waiting, arg, element, expired, timedout,
                   spurious, offered, polled, inCS, sawEmpty, early, late, enq,
                   nOffers, env, procState, bound, buffer, garbage, nRecv, nShell,
                   gateway, encoder>>

----------------------------------------------------------------------------
(* Controller::receiver *)

\* a receiver that gives up when the preamble cannot be read
ReceiverGarbage_FailureEnds(r) ==
    /\ At(r, "rcv_start")
    /\ IF bound[SocketOf(r)]
       THEN /\ \E ok \in Outcomes(SocketOf(r)) :
                  /\ garbage' = [garbage EXCEPT ![SocketOf(r)] = Append(@, ok)]
                  /\ pc' = [pc EXCEPT ![r] = IF ok THEN "rcv_loop" ELSE "rcv_exit"]
            /\ NoteRead(SocketOf(r), r)
            /\ UNCHANGED procState
       ELSE /\ procState' = "aborted"
            /\ UNCHANGED <<garbage, pc, access>>
    /\ UNCHANGED <<queue, mutex, waiting, arg, element, got, expired, timedout,
                   spurious, offered, polled, inCS, sawEmpty, early, late, enq,
                   nOffers, env, bound, buffer, nRecv, nShell, sent, dropped,
                   gateway, encoder>>

\* passert(sockets[index]) and receiveGarbageDataFromFastModels(index):
\* the 15-byte read succeeds or fails, and the receiver goes on either way
ReceiverGarbage(r) ==
    /\ At(r, "rcv_start")
    /\ IF bound[SocketOf(r)]
       THEN /\ \E ok \in Outcomes(SocketOf(r)) :
                  garbage' = [garbage EXCEPT ![SocketOf(r)] = Append(@, ok)]
            /\ pc' = [pc EXCEPT ![r] = "rcv_loop"]
            /\ NoteRead(SocketOf(r), r)
            /\ UNCHANGED procState
       ELSE /\ procState' = "aborted"
            /\ UNCHANGED <<garbage, pc, access>>
    /\ UNCHANGED <<queue, mutex, waiting, arg, element, got, expired, timedout,
                   spurious, offered, polled, inCS, sawEmpty, early, late, enq,
                   nOffers, env, bound, buffer, nRecv, nShell, sent, dropped,
                   gateway, encoder>>

\* a receiver that takes the queue's mutex before it waits for a message
ReceiverClear_HoldsMutex(r) ==
    /\ At(r, "rcv_loop")
    /\ mutex = NoThread
    /\ mutex' = r
    /\ buffer' = [buffer EXCEPT ![r] = None]
    /\ enq' = [enq EXCEPT ![r] = <<>>]
    /\ pc' = [pc EXCEPT ![r] = "rcv_read"]
    /\ UNCHANGED <<queue, waiting, arg, element, got, expired, timedout,
                   spurious, offered, polled, inCS, sawEmpty, early, late,
                   nOffers, env, procState, bound, garbage, nRecv, nShell, sent, dropped,
                   gateway, encoder, access>>

\* the top of the run loop: bzero(buffer, sizeof(buffer))
ReceiverClear(r) ==
    /\ At(r, "rcv_loop")
    /\ buffer' = [buffer EXCEPT ![r] = None]
    /\ enq' = [enq EXCEPT ![r] = <<>>]
    /\ pc' = [pc EXCEPT ![r] = "rcv_read"]
    /\ UNCHANGED <<queue, mutex, waiting, arg, element, got, expired, timedout,
                   spurious, offered, polled, inCS, sawEmpty, early, late,
                   nOffers, env, procState, bound, garbage, nRecv, nShell, sent, dropped,
                   gateway, encoder, access>>

\* a receiver for which a failed read is fatal to the process
ReceiverRead_FailureAborts(r) ==
    /\ At(r, "rcv_read")
    /\ Inputs < env.inputs
    /\ nRecv' = [nRecv EXCEPT ![SocketOf(r)] = @ + 1]
    /\ NoteRead(SocketOf(r), r)
    /\ \/ /\ FALSE \in Outcomes(SocketOf(r))
          /\ pc' = [pc EXCEPT ![r] = "rcv_exit"]
          /\ procState' = "aborted"
          /\ UNCHANGED <<buffer, enq>>
       \/ \E m \in env.wire[r] :
             /\ buffer' = [buffer EXCEPT ![r] = Some(m)]
             /\ UNCHANGED <<enq, procState>>
             /\ pc' = [pc EXCEPT ![r] = "rcv_dispatch"]
    /\ UNCHANGED <<queue, mutex, waiting, arg, element, got, expired, timedout,
                   spurious, offered, polled, inCS, sawEmpty, early, late,
                   nOffers, env, bound, garbage, nShell, sent, dropped,
                   gateway, encoder>>

\* receiveWithLength(buffer, sizeof(Message)): a failed read ends the thread
ReceiverRead(r) ==
    /\ At(r, "rcv_read")
    /\ Inputs < env.inputs
    /\ nRecv' = [nRecv EXCEPT ![SocketOf(r)] = @ + 1]
    /\ NoteRead(SocketOf(r), r)
    /\ \/ /\ FALSE \in Outcomes(SocketOf(r))
          /\ pc' = [pc EXCEPT ![r] = "rcv_exit"]
          /\ UNCHANGED <<buffer, enq>>
       \/ \E m \in env.wire[r] :
             /\ buffer' = [buffer EXCEPT ![r] = Some(m)]
             /\ UNCHANGED enq
             /\ pc' = [pc EXCEPT ![r] = "rcv_dispatch"]
    /\ UNCHANGED <<queue, mutex, waiting, arg, element, got, expired, timedout,
                   spurious, offered, polled, inCS, sawEmpty, early, late,
                   nOffers, env, procState, bound, garbage, nShell, sent, dropped,
                   gateway, encoder>>

\* a switch in which RunOutOfWaterAlert falls into the relay of AckSoilWet
Relay_WaterAlertRelayed(message) ==
    IF message.magic # Magic THEN None
    ELSE IF message.type \in AlertTypes THEN Some(relayMessageToActuatorDevice(message))
    ELSE IF message.type \in AckTypes \cup {"RunOutOfWaterAlert"}
         THEN Some(relayMessageToSensorDevice(message))
    ELSE None

\* a receiver that dispatches on the type without looking at the magic
Relay_NoMagicCheck(message) ==
    IF message.type \in AlertTypes THEN Some(relayMessageToActuatorDevice(message))
    ELSE IF message.type \in AckTypes THEN Some(relayMessageToSensorDevice(message))
    ELSE None

\* a switch in which the outbound-only types fall into the relays: a moisture
\* change is passed on to the monitor and a water change to the actuator
Relay_OutboundRelayed(message) ==
    IF message.magic # Magic THEN None
    ELSE IF message.type \in AlertTypes \cup {"ChangeWaterStatus"}
         THEN Some(relayMessageToActuatorDevice(message))
    ELSE IF message.type \in AckTypes \cup {"ChangeSoilMoisture"}
         THEN Some(relayMessageToSensorDevice(message))
    ELSE None

\* the magic check and the switch on message->type: the Command to offer, if any
Relay(message) ==
    IF message.magic # Magic THEN None
    ELSE IF message.type \in AlertTypes THEN Some(relayMessageToActuatorDevice(message))
    ELSE IF message.type \in AckTypes THEN Some(relayMessageToSensorDevice(message))
    ELSE None

ReceiverDispatch(r) ==
    /\ At(r, "rcv_dispatch")
    /\ LET command == Relay(Value(buffer[r]))
       IN  IF command = None
           THEN /\ pc' = [pc EXCEPT ![r] = "rcv_loop"]
                /\ UNCHANGED arg
           ELSE /\ arg' = [arg EXCEPT ![r] = command]
                /\ pc' = [pc EXCEPT ![r] = "offer_lock"]
    /\ UNCHANGED <<queue, mutex, waiting, element, got, expired, timedout,
                   spurious, offered, polled, inCS, sawEmpty, early, late, enq,
                   nOffers, env, procState, bound, buffer, garbage, nRecv, nShell,
                   sent, dropped,
                   gateway, encoder, access>>

----------------------------------------------------------------------------
(* Controller::run *)

\* std::thread sender(&Controller::sender, this)
RunSender ==
    /\ At("main", "run_sender")
    /\ pc' = [pc EXCEPT !["main"] = "run_mReceiver", !["sender"] = "poll_lock"]
    /\ UNCHANGED <<queue, mutex, waiting, arg, element, got, expired, timedout,
                   spurious, offered, polled, inCS, sawEmpty, early, late, enq,
                   others>>

\* a run() that starts the monitor receiver whether the socket exists or not
RunMonitorReceiver_Unconditional ==
    /\ At("main", "run_mReceiver")
    /\ pc' = [pc EXCEPT !["main"] = "run_aReceiver", !["mReceiver"] = "rcv_start"]
    /\ UNCHANGED <<queue, mutex, waiting, arg, element, got, expired, timedout,
                   spurious, offered, polled, inCS, sawEmpty, early, late, enq,
                   others>>

\* if (sockets[kMonitor]) mReceiver = std::thread(&Controller::receiver, ...)
RunMonitorReceiver ==
    /\ At("main", "run_mReceiver")
    /\ pc' = [pc EXCEPT !["main"] = "run_aReceiver",
                        !["mReceiver"] = IF bound["Monitor"] THEN "rcv_start" ELSE @]
    /\ UNCHANGED <<queue, mutex, waiting, arg, element, got, expired, timedout,
                   spurious, offered, polled, inCS, sawEmpty, early, late, enq,
                   others>>

\* if (sockets[kActuator]) aReceiver = std::thread(&Controller::receiver, ...)
RunActuatorReceiver ==
    /\ At("main", "run_aReceiver")
    /\ pc' = [pc EXCEPT !["main"] = "run_gateway",
                        !["aReceiver"] = IF bound["Actuator"] THEN "rcv_start" ELSE @]
    /\ UNCHANGED <<queue, mutex, waiting, arg, element, got, expired, timedout,
                   spurious, offered, polled, inCS, sawEmpty, early, late, enq,
                   others>>

\* a run() that reads the preamble on the monitor socket
RunGatewayGarbage_ReadsMonitor ==
    /\ At("main", "run_gateway")
    /\ IF bound["Monitor"]
       THEN /\ \E ok \in Outcomes("Monitor") :
                  garbage' = [garbage EXCEPT !["Monitor"] = Append(@, ok)]
            /\ NoteRead("Monitor", "main")
       ELSE UNCHANGED <<garbage, access>>
    /\ pc' = [pc EXCEPT !["main"] = "sh_prompt"]
    /\ UNCHANGED <<queue, mutex, waiting, arg, element, got, expired, timedout,
                   spurious, offered, polled, inCS, sawEmpty, early, late, enq,
                   nOffers, env, procState, bound, buffer, nRecv, nShell, sent, dropped,
                   gateway, encoder>>

\* a run() that does not read the preamble of the gateway
RunGatewayGarbage_Skips ==
    /\ At("main", "run_gateway")
    /\ pc' = [pc EXCEPT !["main"] = "sh_prompt"]
    /\ UNCHANGED <<queue, mutex, waiting, arg, element, got, expired, timedout,
                   spurious, offered, polled, inCS, sawEmpty, early, late, enq,
                   others>>

\* if (sockets[kGateway]) receiveGarbageDataFromFastModels(kGateway)
RunGatewayGarbage ==
    /\ At("main", "run_gateway")
    /\ IF bound["Gateway"]
       THEN /\ \E ok \in Outcomes("Gateway") :
                  garbage' = [garbage EXCEPT !["Gateway"] = Append(@, ok)]
            /\ NoteRead("Gateway", "main")
       ELSE UNCHANGED <<garbage, access>>
    /\ pc' = [pc EXCEPT !["main"] = "sh_prompt"]
    /\ UNCHANGED <<queue, mutex, waiting, arg, element, got, expired, timedout,
                   spurious, offered, polled, inCS, sawEmpty, early, late, enq,
                   nOffers, env, procState, bound, buffer, nRecv, nShell, sent, dropped,
                   gateway, encoder>>

\* trial counts typed at the shell (`gateway 3 0`)
MaxTrials == 3

\* the lines of the shell that use the gateway: <<command, trials>>
GatewayLines == {<<"coap", 0>>} \cup {<<"gateway", n>> : n \in 1..MaxTrials}

\* the lines the shell loop reads: <<command, argument>>
ShellLines ==
    {<<"soil", l>> : l \in ShellLevels} \cup {<<"water", w>> : w \in {0, 1}}
        \cup {<<"dry", 0>>, <<"wet", 0>>, <<"help", 0>>}

\* the Command a line makes the shell offer, if any
ShellCommand(line) ==
    IF line[1] = "soil" THEN Some(changeSoilMoisture(line[2]))
    ELSE IF line[1] = "water" THEN Some(changeWaterStatus(line[2]))
    ELSE IF line[1] = "dry" THEN Some(sendDrySoilAlertToActuatorDevice)
    ELSE IF line[1] = "wet" THEN Some(sendWetSoilAlertToActuatorDevice)
    ELSE None

\* one line of the command loop, other than `exit`
ShellLine ==
    /\ At("main", "sh_prompt")
    /\ Inputs < env.inputs
    /\ nShell' = nShell + 1
    /\ \E line \in env.lines \ GatewayLines :
          LET command == ShellCommand(line)
          IN  IF command = None
              THEN UNCHANGED <<pc, arg, enq>>
              ELSE /\ arg' = [arg EXCEPT !["main"] = command]
                   /\ enq' = [enq EXCEPT !["main"] = <<>>]
                   /\ pc' = [pc EXCEPT !["main"] = "offer_lock"]
    /\ UNCHANGED <<queue, mutex, waiting, element, got, expired, timedout,
                   spurious, offered, polled, inCS, sawEmpty, early, late,
                   nOffers, env, procState, bound, buffer, garbage, nRecv, sent, dropped,
                   gateway, encoder, access>>

\* `exit`: break out of the command loop
ShellExit ==
    /\ At("main", "sh_prompt")
    /\ pc' = [pc EXCEPT !["main"] = "run_return"]
    /\ UNCHANGED <<queue, mutex, waiting, arg, element, got, expired, timedout,
                   spurious, offered, polled, inCS, sawEmpty, early, late, enq,
                   others>>

\* the std::thread objects of run() that are joinable when it returns
Joinable == {t \in {"sender", "mReceiver", "aReceiver"} : pc[t] # "unstarted"}

\* return 0: the locals sender, mReceiver and aReceiver are destroyed, and the
\* destructor of a joinable std::thread calls std::terminate()
RunReturn ==
    /\ At("main", "run_return")
    /\ procState' = IF Joinable # {} THEN "terminated" ELSE "returned"
    /\ UNCHANGED <<queue, mutex, waiting, pc, arg, element, got, expired, timedout,
                   spurious, offered, polled, inCS, sawEmpty, early, late, enq,
                   nOffers, env, bound, buffer, garbage, nRecv, nShell, sent, dropped,
                   gateway, encoder, access>>

----------------------------------------------------------------------------
(* the gateway round trip and the gateway experiment *)

\* the moisture level of every request: makeCoAPRequestMessage(request, 100)
RequestLevel == U32(0, 100)

\* the length of the reply read: sendRecvCoAPMessage(request, response, 54)
ReplyLength == 54

\* elapsed times of a round trip, in nanoseconds
Durations == {1, 2, 3}

\* a call on sockets[kGateway]: what was called with what length and result,
\* for which line of the shell and which trial of its experiment (0: `coap`)
GatewayCall(op, len, ok) ==
    [op |-> op, len |-> len, ok |-> ok, line |-> nShell,
     trial |-> IF trials > 0 THEN trial + 1 ELSE 0]

\* std::min_element, std::max_element on a non-empty vector
RECURSIVE min(_)
min(d) ==
    IF Len(d) = 1 THEN d[1]
    ELSE LET m == min(Tail(d)) IN IF m < d[1] THEN m ELSE d[1]

RECURSIVE max(_)
max(d) ==
    IF Len(d) = 1 THEN d[1]
    ELSE LET m == max(Tail(d)) IN IF d[1] < m THEN m ELSE d[1]

\* std::sort
RECURSIVE Insert(_, _)
Insert(x, d) ==
    IF d = <<>> THEN <<x>>
    ELSE IF x <= d[1] THEN <<x>> \o d
    ELSE <<d[1]>> \o Insert(x, Tail(d))

RECURSIVE Sort(_)
Sort(d) == IF d = <<>> THEN d ELSE Insert(d[1], Sort(Tail(d)))

\* Result::medium: tmp[durations.size() / 2] of the sorted copy
medium(d) == Sort(d)[(Len(d) \div 2) + 1]

\* `coap` or `gateway trials delay` is typed
ShellGateway ==
    /\ At("main", "sh_prompt")
    /\ Inputs < env.inputs
    /\ nShell' = nShell + 1
    /\ \E line \in env.lines \cap GatewayLines :
          IF line[1] = "coap"
          THEN /\ pc' = [pc EXCEPT !["main"] = "coap_make"]
               /\ UNCHANGED trials
          ELSE /\ pc' = [pc EXCEPT !["main"] = "exp_make"]
               /\ trials' = line[2]
    /\ UNCHANGED <<queue, mutex, waiting, arg, element, got, expired, timedout,
                   spurious, offered, polled, inCS, sawEmpty, early, late, enq,
                   nOffers, env, procState, bound, buffer, garbage, nRecv, sent,
                   dropped, access, gwio, trial, durations, report, encoder>>

\* sendRecvCoAPMessageOnce: the request is built in a zeroed buffer
CoapMake ==
    /\ At("main", "coap_make")
    /\ request' = makeCoAPRequestMessage(Zeroed, RequestLevel, host).buffer
    /\ moisture' = RequestLevel
    /\ pc' = [pc EXCEPT !["main"] = "gw_send"]
    /\ UNCHANGED <<queue, mutex, waiting, arg, element, got, expired, timedout,
                   spurious, offered, polled, inCS, sawEmpty, early, late, enq,
                   nOffers, env, procState, bound, buffer, garbage, nRecv, nShell,
                   sent, dropped, access, gateway, ptr, host>>

\* a call through sockets[kGateway]: with no socket there the optional is
\* empty and the behaviour is undefined: the call may return either result
GatewayOutcomes == IF bound["Gateway"] THEN Outcomes("Gateway") ELSE BOOLEAN

\* a send that only reports its failure
GatewaySend_SoftFailure ==
    /\ At("main", "gw_send")
    /\ \E ok \in GatewayOutcomes :
          /\ gwio' = Append(gwio, GatewayCall("send", Len(request), ok))
          /\ NoteWrite("Gateway", "main")
          /\ pc' = [pc EXCEPT !["main"] = "gw_recv"]
          /\ UNCHANGED procState
    /\ UNCHANGED <<queue, mutex, waiting, arg, element, got, expired, timedout,
                   spurious, offered, polled, inCS, sawEmpty, early, late, enq,
                   nOffers, env, bound, buffer, garbage, nRecv, nShell,
                   sent, dropped, trials, trial, durations, report, encoder>>

\* passert(sockets[kGateway]->send(request, sizeof(request)), ...); with an
\* empty optional the process may also end before any call is made
GatewaySend ==
    /\ At("main", "gw_send")
    /\ \/ \E ok \in GatewayOutcomes :
             /\ gwio' = Append(gwio, GatewayCall("send", Len(request), ok))
             /\ NoteWrite("Gateway", "main")
             /\ IF ok
                THEN pc' = [pc EXCEPT !["main"] = "gw_recv"] /\ UNCHANGED procState
                ELSE procState' = "aborted" /\ UNCHANGED pc
       \/ /\ ~bound["Gateway"]
          /\ procState' = "crashed"
          /\ UNCHANGED <<gwio, access, pc>>
    /\ UNCHANGED <<queue, mutex, waiting, arg, element, got, expired, timedout,
                   spurious, offered, polled, inCS, sawEmpty, early, late, enq,
                   nOffers, env, bound, buffer, garbage, nRecv, nShell,
                   sent, dropped, trials, trial, durations, report, encoder>>

\* a receive that is tried again when it fails
GatewayRecv_Retries ==
    /\ At("main", "gw_recv")
    /\ Len(gwio) < 6
    /\ \E ok \in GatewayOutcomes :
          /\ gwio' = Append(gwio, GatewayCall("recv", ReplyLength, ok))
          /\ NoteRead("Gateway", "main")
          /\ pc' = [pc EXCEPT !["main"] =
                       IF ~ok THEN "gw_recv"
                       ELSE IF trials > 0 THEN "exp_record" ELSE "sh_prompt"]
    /\ UNCHANGED <<queue, mutex, waiting, arg, element, got, expired, timedout,
                   spurious, offered, polled, inCS, sawEmpty, early, late, enq,
                   nOffers, env, procState, bound, buffer, garbage, nRecv, nShell,
                   sent, dropped, trials, trial, durations, report, encoder>>

\* passert(sockets[kGateway]->receiveWithLength(response, length), ...), and
\* the return to sendRecvCoAPMessageOnce or to the measurer
GatewayRecv ==
    /\ At("main", "gw_recv")
    /\ \/ \E ok \in GatewayOutcomes :
             /\ gwio' = Append(gwio, GatewayCall("recv", ReplyLength, ok))
             /\ NoteRead("Gateway", "main")
             /\ IF ok
                THEN /\ pc' = [pc EXCEPT !["main"] =
                                  IF trials > 0 THEN "exp_record" ELSE "sh_prompt"]
                     /\ UNCHANGED procState
                ELSE procState' = "aborted" /\ UNCHANGED pc
       \/ /\ ~bound["Gateway"]
          /\ procState' = "crashed"
          /\ UNCHANGED <<gwio, access, pc>>
    /\ UNCHANGED <<queue, mutex, waiting, arg, element, got, expired, timedout,
                   spurious, offered, polled, inCS, sawEmpty, early, late, enq,
                   nOffers, env, bound, buffer, garbage, nRecv, nShell,
                   sent, dropped, trials, trial, durations, report, encoder>>

\* sendRecvCoAPMessages: the request is built in a buffer not initialised,
\* and the measurer starts with Result result(trials) and trial = 0
ExpMake ==
    /\ At("main", "exp_make")
    /\ request' = makeCoAPRequestMessage(Stale, RequestLevel, host).buffer
    /\ moisture' = RequestLevel
    /\ durations' = <<>>
    /\ trial' = 0
    /\ pc' = [pc EXCEPT !["main"] = "exp_loop"]
    /\ UNCHANGED <<queue, mutex, waiting, arg, element, got, expired, timedout,
                   spurious, offered, polled, inCS, sawEmpty, early, late, enq,
                   nOffers, env, procState, bound, buffer, garbage, nRecv, nShell,
                   sent, dropped, access, gwio, trials, report, ptr, host>>

\* a loop that runs once more than asked
ExpLoop_OneMore ==
    /\ At("main", "exp_loop")
    /\ pc' = [pc EXCEPT !["main"] = IF trial <= trials THEN "gw_send" ELSE "exp_report"]
    /\ UNCHANGED <<queue, mutex, waiting, arg, element, got, expired, timedout,
                   spurious, offered, polled, inCS, sawEmpty, early, late, enq, others>>

\* for (...; trial < trials; ...): the clock is read and func is invoked
ExpLoop ==
    /\ At("main", "exp_loop")
    /\ pc' = [pc EXCEPT !["main"] = IF trial < trials THEN "gw_send" ELSE "exp_report"]
    /\ UNCHANGED <<queue, mutex, waiting, arg, element, got, expired, timedout,
                   spurious, offered, polled, inCS, sawEmpty, early, late, enq, others>>

\* result.durations.push_back(end - start); sleep_for(delay); trial += 1
ExpRecord ==
    /\ At("main", "exp_record")
    /\ \E d \in Durations : durations' = Append(durations, d)
    /\ trial' = trial + 1
    /\ pc' = [pc EXCEPT !["main"] = "exp_loop"]
    /\ UNCHANGED <<queue, mutex, waiting, arg, element, got, expired, timedout,
                   spurious, offered, polled, inCS, sawEmpty, early, late, enq,
                   nOffers, env, procState, bound, buffer, garbage, nRecv, nShell,
                   sent, dropped, access, gwio, trials, report, encoder>>

\* runGatewayExperiment prints the statistics of the result, and the result
\* is destroyed
ExpReport ==
    /\ At("main", "exp_report")
    /\ report' = Some([line |-> nShell, trials |-> trials, samples |-> Len(durations),
                       min |-> min(durations), max |-> max(durations),
                       medium |-> medium(durations)])
    /\ trials' = 0
    /\ trial' = 0
    /\ durations' = <<>>
    /\ pc' = [pc EXCEPT !["main"] = "sh_prompt"]
    /\ UNCHANGED <<queue, mutex, waiting, arg, element, got, expired, timedout,
                   spurious, offered, polled, inCS, sawEmpty, early, late, enq,
                   nOffers, env, procState, bound, buffer, garbage, nRecv, nShell,
                   sent, dropped, access, gwio, encoder>>

----------------------------------------------------------------------------
(* Spec: the controller *)

CtlThreads == {"main", "sender"} \cup Receivers

\* the sockets main() can make the Controller with: at least one
Sockets == {b \in [Slots -> BOOLEAN] : \E s \in Slots : b[s]}

\* One device sends messages of one kind while the other, connected or not,
\* is silent, no gateway is connected and nothing but `exit` is typed; calls
\* on that device's socket may fail.
Talks(r, W) ==
    [wire |-> [x \in Receivers |-> IF x = r THEN W ELSE {}],
     lines |-> {},
     inputs |-> MaxTalk,
     faulty |-> {SocketOf(r)},
     sockets |-> {b \in Sockets : b[SocketOf(r)] /\ ~b["Gateway"]}]

\* Both devices send and the shell is used at once: the monitor sends alerts,
\* the actuator acknowledges, and commands are typed; no call on a socket fails.
Busy ==
    [wire |-> [x \in Receivers |->
                  IF x = "mReceiver"
                  THEN {MakeMessage(Magic, "SoilDryAlert", 1)}
                  ELSE {MakeMessage(Magic, "AckSoilWet", 1)}],
     lines |-> {<<"soil", 30>>, <<"dry", 0>>},
     inputs |-> MaxInputs,
     faulty |-> {},
     sockets |-> {[s \in Slots |-> TRUE]}]

\* The devices are silent, at most one of the monitor and the actuator is
\* connected, and any command is typed; a call on a socket may fail.
Typing ==
    [wire |-> [x \in Receivers |-> {}],
     lines |-> ShellLines,
     inputs |-> MaxTalk,
     faulty |-> {"Monitor", "Actuator"},
     sockets |-> {b \in Sockets : ~(b["Monitor"] /\ b["Actuator"])}]

Environments ==
    {Talks(r, W) : r \in Receivers, W \in WireClasses} \cup {Busy, Typing}

\* no socket has been used and no gateway round trip made
NoAccess ==
    /\ readers = [s \in Slots |-> {}]
    /\ writers = [s \in Slots |-> {}]
    /\ gwio = <<>>
    /\ trials = 0
    /\ trial = 0
    /\ durations = <<>>
    /\ report = None

\* no request has been built; the controller runs on a little-endian machine
NoRequest ==
    /\ request = <<>>
    /\ ptr = 0
    /\ moisture = U32(0, 0)
    /\ host = LittleEndian

AtRest == NoAccess /\ NoRequest

\* main() makes the Controller with at least one socket
Init ==
    /\ env \in Environments
    /\ QueueInit
    /\ LocalsInit(CtlThreads)
    /\ pc = [t \in CtlThreads |-> IF t = "main" THEN "run_sender" ELSE "unstarted"]
    /\ nOffers = 0
    /\ procState = "running"
    /\ bound \in env.sockets
    /\ buffer = [r \in Receivers |-> None]
    /\ garbage = [s \in Slots |-> <<>>]
    /\ nRecv = [s \in Slots |-> 0]
    /\ nShell = 0
    /\ sent = [s \in Slots |-> <<>>]
    /\ dropped = <<>>
    /\ AtRest

\* the steps of the queue's operations a controller thread takes
QueueStep(t) ==
    \/ OfferLock(t)
    \/ OfferPush(t)
    \/ OfferNotify(t)
    \/ OfferUnlock(t)
    \/ PollLock(t)
    \/ PollCheck(t)
    \/ PollWake(t)
    \/ PollFront(t)
    \/ PollPop(t)
    \/ PollReturn(t)
    \/ SpuriousWake(t)

ReceiverStep(r) ==
    \/ ReceiverGarbage(r)
    \/ ReceiverClear(r)
    \/ ReceiverRead(r)
    \/ ReceiverDispatch(r)

MainStep ==
    \/ RunSender
    \/ RunMonitorReceiver
    \/ RunActuatorReceiver
    \/ RunGatewayGarbage
    \/ ShellLine
    \/ ShellExit
    \/ RunReturn

Next ==
    \/ \E t \in CtlThreads : QueueStep(t)
    \/ \E r \in Receivers : ReceiverStep(r)
    \/ SenderSend
    \/ MainStep

Spec == Init /\ [][Next]_vars

----------------------------------------------------------------------------
(* QSpec: threads that call the queue's operations *)

ctl == <<env, procState, bound, buffer, garbage, nRecv, nShell, sent, dropped,
         access, gateway, encoder>>

CallOffer(t) ==
    /\ t \in Producers
    /\ At(t, "idle")
    /\ nOffers < MaxOffers
    /\ nOffers' = nOffers + 1
    /\ arg' = [arg EXCEPT ![t] = Some(QElement(nOffers + 1))]
    /\ enq' = [enq EXCEPT ![t] = <<>>]
    /\ pc' = [pc EXCEPT ![t] = "offer_lock"]
    /\ UNCHANGED <<queue, mutex, waiting, element, got, expired, timedout,
                   spurious, offered, polled, inCS, sawEmpty, early, late, ctl>>

CallPoll(t) ==
    /\ t \in Consumers
    /\ At(t, "idle")
    /\ got' = [got EXCEPT ![t] = None]
    /\ pc' = [pc EXCEPT ![t] = "poll_lock"]
    /\ UNCHANGED <<queue, mutex, waiting, arg, element, expired, timedout,
                   spurious, offered, polled, inCS, sawEmpty, early, late, enq, others>>

CallPollWithTimeout(t) ==
    /\ t \in Consumers
    /\ At(t, "idle")
    /\ got' = [got EXCEPT ![t] = None]
    /\ pc' = [pc EXCEPT ![t] = "pwt_lock"]
    /\ UNCHANGED <<queue, mutex, waiting, arg, element, expired, timedout,
                   spurious, offered, polled, inCS, sawEmpty, early, late, enq, others>>

\* QSpec has no controller: its variables stay as they are
NoController ==
    /\ env = [wire |-> [r \in Receivers |-> {}], lines |-> {}, inputs |-> 0,
              faulty |-> {}, sockets |-> {}]
    /\ procState = "running"
    /\ bound = [s \in Slots |-> FALSE]
    /\ buffer = [r \in Receivers |-> None]
    /\ garbage = [s \in Slots |-> <<>>]
    /\ nRecv = [s \in Slots |-> 0]
    /\ nShell = 0
    /\ sent = [s \in Slots |-> <<>>]
    /\ dropped = <<>>

QInit ==
    /\ QueueInit
    /\ LocalsInit(QThreads)
    /\ pc = [t \in QThreads |-> "idle"]
    /\ nOffers = 0
    /\ NoController
    /\ AtRest

QStep(t) ==
    \/ CallOffer(t)
    \/ CallPoll(t)
    \/ CallPollWithTimeout(t)
    \/ OfferLock(t)
    \/ OfferPush(t)
    \/ OfferNotify(t)
    \/ OfferUnlock(t)
    \/ PollLock(t)
    \/ PollCheck(t)
    \/ PollWake(t)
    \/ PollFront(t)
    \/ PollPop(t)
    \/ PollReturn(t)
    \/ TimedLock(t)
    \/ TimedCheck(t)
    \/ Expire(t)
    \/ TimedWake(t)
    \/ TimedFront(t)
    \/ TimedPop(t)
    \/ TimedReturnSome(t)
    \/ TimedReturnNone(t)
    \/ SpuriousWake(t)

QNext == \E t \in QThreads : QStep(t)

QSpec == QInit /\ [][QNext]_vars

----------------------------------------------------------------------------
(* Properties of the queue *)

\* the element a thread has popped and not yet returned
Taken ==
    LET T == {t \in Threads : pc[t] \in {"poll_return", "pwt_some"}}
    IN  IF T = {} THEN <<>> ELSE <<Value(element[CHOOSE t \in T : TRUE])>>

\* the pcs at which a thread is between locking and unlocking the mutex
CriticalPcs ==
    {"offer_push", "offer_notify", "offer_unlock",
     "poll_check", "poll_front", "poll_pop", "poll_return",
     "pwt_check", "pwt_front", "pwt_pop", "pwt_some", "pwt_none"}

InCritical(t) == pc[t] \in CriticalPcs

\* C1: with the receivers and the shell offering and the sender polling, the
\* elements poll has returned, then the one it is returning, then the queue's
\* content are at every moment the elements in the order their offers took
\* effect: nothing is lost, returned twice or returned without an offer.
C1_Fifo == offered = polled \o Taken \o queue

\* two threads' offers took effect, the first has been returned to the sender
\* and the second is still queued
C1_Witness ==
    /\ Len(polled) = 1
    /\ Len(queue) = 1
    /\ polled[1] # queue[1]
    /\ pc["sender"] = "snd_send"

\* C2: poll reads and removes the head only with the mutex held and the queue
\* non-empty, the element it removes is the head it read, and the element it
\* returns is the oldest one not yet returned, also after a spurious or a
\* shared wake-up.
C2_PollTakesHead ==
    \A t \in Threads :
        /\ pc[t] \in {"poll_front", "poll_pop", "poll_return"} => mutex = t
        /\ pc[t] \in {"poll_front", "poll_pop"} => ~Empty(queue)
        /\ pc[t] = "poll_pop" => element[t] = Some(Head(queue))
        /\ pc[t] = "poll_return" =>
              /\ element[t] # None
              /\ Len(offered) > Len(polled)
              /\ Value(element[t]) = offered[Len(polled) + 1]

\* a poll that was woken without a notification later removes an element
C2_Witness ==
    \E t \in Consumers : pc[t] = "poll_pop" /\ spurious > 0 /\ Len(polled) > 0

\* C3: with several threads blocked in poll / pollWithTimeout, at most one
\* thread is between locking and unlocking the mutex, the mutex owner is that
\* thread, and the elements leave the queue once each and in offer order
\* whichever waiter takes them.
C3_Exclusive ==
    /\ \A t1, t2 \in Threads : InCritical(t1) /\ InCritical(t2) => t1 = t2
    /\ \A t \in Threads : InCritical(t) <=> mutex = t
    /\ inCS = {t \in Threads : InCritical(t)}
    /\ polled \o Taken \o queue = offered
    /\ \A i, j \in 1..Len(polled) : polled[i] = polled[j] => i = j

\* two waiters were released by one notify_all and an element is queued
C3_Witness ==
    /\ \A c \in Consumers : pc[c] \in {"poll_wait", "pwt_wait"} /\ c \notin waiting
    /\ \A c \in Consumers : ~expired[c]
    /\ spurious = 0
    /\ ~Empty(queue)

\* C5: a pollWithTimeout about to return the empty result holds the mutex, has
\* taken no element, and every element offered and not yet returned is still
\* in the queue in offer order, so that the next poll returns the oldest; the
\* return itself leaves the queue as it is.
C5_TimeoutInv ==
    \A t \in Threads :
        pc[t] = "pwt_none" =>
            /\ mutex = t
            /\ element[t] = None
            /\ polled \o queue = offered

C5_TimeoutTakesNothing ==
    /\ []C5_TimeoutInv
    /\ [][\A t \in Threads :
             pc[t] = "pwt_none" /\ pc'[t] # "pwt_none" =>
                 /\ queue' = queue
                 /\ polled' = polled
                 /\ got'[t] = None]_vars

\* a pollWithTimeout has timed out and is about to return the empty result
\* after another call took an element
C5_Witness ==
    \E t \in Consumers : pc[t] = "pwt_none" /\ Len(polled) > 0

----------------------------------------------------------------------------
(* Properties of the controller's relay *)

ValidMessage(m) == m.magic = Magic

\* the commands the sender has finished with: the ones poll returned, less
\* the one it holds and has not yet sent
Handled ==
    IF pc["sender"] = "snd_send" THEN SubSeq(polled, 1, Len(polled) - 1) ELSE polled

MessagesOf(s) == [i \in 1..Len(s) |-> s[i].message]

\* what the sender has done is what the queue gave it: the writes on a bound
\* socket are the messages of the handled commands for that socket, once each
\* and in order, and the handled commands for an unbound socket are dropped
Routed ==
    /\ \A s \in Slots :
          MessagesOf(sent[s]) =
              MessagesOf(SelectSeq(Handled, LAMBDA c : c.index = s /\ bound[s]))
    /\ dropped = SelectSeq(Handled, LAMBDA c : ~bound[c.index])

\* C7: a receiver that has read a valid SoilDryAlert or SoilWetAlert offers
\* one Command, made of the message as read and the index Actuator, once; and
\* no alert is written on the monitor or the gateway socket.
C7_AlertToActuator ==
    /\ \A r \in Receivers :
          buffer[r] # None /\ ValidMessage(Value(buffer[r]))
              /\ Value(buffer[r]).type \in AlertTypes =>
            LET command == [message |-> Value(buffer[r]), index |-> "Actuator"]
            IN  /\ pc[r] \in {"rcv_dispatch", "offer_lock", "offer_push",
                              "offer_notify", "offer_unlock", "rcv_loop"}
                /\ pc[r] = "rcv_dispatch" => enq[r] = <<>>
                /\ pc[r] \in {"offer_lock", "offer_push"} =>
                      arg[r] = Some(command) /\ enq[r] = <<>>
                /\ pc[r] \in {"offer_notify", "offer_unlock", "rcv_loop"} =>
                      enq[r] = <<command>>
    /\ \A s \in {"Monitor", "Gateway"} :
          \A i \in 1..Len(sent[s]) : sent[s][i].message.type \notin AlertTypes

\* a receiver has relayed an alert and the sender has written it on the
\* actuator socket
C7_Witness ==
    \E r \in Receivers :
        /\ pc[r] = "rcv_loop"
        /\ buffer[r] # None
        /\ ValidMessage(Value(buffer[r]))
        /\ Value(buffer[r]).type \in AlertTypes
        /\ Len(enq[r]) = 1
        /\ Len(sent["Actuator"]) = 1
        /\ sent["Actuator"][1].message = Value(buffer[r])

\* C9: a receiver that has read a valid AckSoilWet offers one Command, made of
\* the message as read and the index Monitor, once; no command carrying an
\* AckSoilWet is ever offered for the actuator or the gateway.
C9_AckToMonitor ==
    /\ \A r \in Receivers :
          buffer[r] # None /\ ValidMessage(Value(buffer[r]))
              /\ Value(buffer[r]).type \in AckTypes =>
            LET command == [message |-> Value(buffer[r]), index |-> "Monitor"]
            IN  /\ pc[r] \in {"rcv_dispatch", "offer_lock", "offer_push",
                              "offer_notify", "offer_unlock", "rcv_loop"}
                /\ pc[r] = "rcv_dispatch" => enq[r] = <<>>
                /\ pc[r] \in {"offer_lock", "offer_push"} =>
                      arg[r] = Some(command) /\ enq[r] = <<>>
                /\ pc[r] \in {"offer_notify", "offer_unlock", "rcv_loop"} =>
                      enq[r] = <<command>>
    /\ \A i \in 1..Len(offered) :
          offered[i].message.type \in AckTypes => offered[i].index = "Monitor"

\* a receiver has relayed an AckSoilWet and it is the command in the queue
C9_Witness ==
    \E r \in Receivers :
        /\ pc[r] = "rcv_loop"
        /\ buffer[r] # None
        /\ ValidMessage(Value(buffer[r]))
        /\ Value(buffer[r]).type \in AckTypes
        /\ queue = <<[message |-> Value(buffer[r]), index |-> "Monitor"]>>

\* C10: a receiver that has read a valid UserStack message or a
\* RunOutOfWaterAlert offers nothing and goes back to the top of its loop;
\* no command carrying such a message is offered, and none is written on or
\* dropped for any socket.
C10_LogOnly ==
    /\ \A r \in Receivers :
          buffer[r] # None /\ ValidMessage(Value(buffer[r]))
              /\ Value(buffer[r]).type \in LogTypes =>
            /\ pc[r] \in {"rcv_dispatch", "rcv_loop"}
            /\ arg[r] = None
            /\ enq[r] = <<>>
    /\ \A i \in 1..Len(offered) : offered[i].message.type \notin LogTypes
    /\ \A s \in Slots :
          \A i \in 1..Len(sent[s]) : sent[s][i].message.type \notin LogTypes
    /\ \A i \in 1..Len(dropped) : dropped[i].message.type \notin LogTypes

\* a receiver is back at the top of its loop after a RunOutOfWaterAlert, and
\* nothing was offered or sent
C10_Witness ==
    \E r \in Receivers :
        /\ pc[r] = "rcv_loop"
        /\ buffer[r] # None
        /\ ValidMessage(Value(buffer[r]))
        /\ Value(buffer[r]).type = "RunOutOfWaterAlert"
        /\ offered = <<>>
        /\ \A s \in Slots : sent[s] = <<>>

----------------------------------------------------------------------------
(* QFairSpec: one producer and two consumers, scheduled fairly *)

LiveThreads == {"p1", "c1", "c2"}

QLiveInit ==
    /\ QueueInit
    /\ LocalsInit(LiveThreads)
    /\ pc = [t \in LiveThreads |-> "idle"]
    /\ nOffers = 0
    /\ NoController
    /\ AtRest

\* the steps a thread inside a queue operation takes when it is scheduled,
\* and the expiry of its timer; calling an operation and waking up without a
\* notification are not among them
QProgress(t) ==
    \/ OfferLock(t)
    \/ OfferPush(t)
    \/ OfferNotify(t)
    \/ OfferUnlock(t)
    \/ PollLock(t)
    \/ PollCheck(t)
    \/ PollWake(t)
    \/ PollFront(t)
    \/ PollPop(t)
    \/ PollReturn(t)
    \/ TimedLock(t)
    \/ TimedCheck(t)
    \/ Expire(t)
    \/ TimedWake(t)
    \/ TimedFront(t)
    \/ TimedPop(t)
    \/ TimedReturnSome(t)
    \/ TimedReturnNone(t)

QLiveNext == \E t \in LiveThreads : QStep(t)

QFairSpec ==
    /\ QLiveInit
    /\ [][QLiveNext]_vars
    /\ \A t \in LiveThreads : WF_vars(QProgress(t))

\* a thread blocked in poll's wait, not notified
Blocked(t) == pc[t] = "poll_wait" /\ t \in waiting

----------------------------------------------------------------------------
(* FairSpec: the controller relaying, its threads scheduled fairly *)

MaxLive == 2

\* The monitor sends dry alerts, the actuator is silent, soil levels are
\* typed; calls on the actuator socket may fail.
Relaying ==
    [wire |-> [x \in Receivers |->
                  IF x = "mReceiver"
                  THEN {MakeMessage(Magic, "SoilDryAlert", 1)}
                  ELSE {}],
     lines |-> {<<"soil", 30>>},
     inputs |-> MaxLive,
     faulty |-> {"Actuator"},
     sockets |-> {b \in Sockets : b["Monitor"] /\ b["Gateway"]}]

LiveInit ==
    /\ env = Relaying
    /\ QueueInit
    /\ LocalsInit(CtlThreads)
    /\ pc = [t \in CtlThreads |-> IF t = "main" THEN "run_sender" ELSE "unstarted"]
    /\ nOffers = 0
    /\ procState = "running"
    /\ bound \in env.sockets
    /\ buffer = [r \in Receivers |-> None]
    /\ garbage = [s \in Slots |-> <<>>]
    /\ nRecv = [s \in Slots |-> 0]
    /\ nShell = 0
    /\ sent = [s \in Slots |-> <<>>]
    /\ dropped = <<>>
    /\ AtRest

\* the steps a controller thread takes when it is scheduled: all but the
\* arrival of input (a message on a socket, a line typed, `exit`) and waking
\* up without a notification
Progress(t) ==
    \/ OfferLock(t) \/ OfferPush(t) \/ OfferNotify(t) \/ OfferUnlock(t)
    \/ PollLock(t) \/ PollCheck(t) \/ PollWake(t)
    \/ PollFront(t) \/ PollPop(t) \/ PollReturn(t)
    \/ t = "sender" /\ SenderSend
    \/ t \in Receivers /\ (ReceiverGarbage(t) \/ ReceiverClear(t) \/ ReceiverDispatch(t))
    \/ t = "main" /\ (RunSender \/ RunMonitorReceiver \/ RunActuatorReceiver
                        \/ RunGatewayGarbage \/ RunReturn)

FairSpec ==
    /\ LiveInit
    /\ [][Next]_vars
    /\ \A t \in CtlThreads : WF_vars(Progress(t))

\* the monitor receiver has decoded a valid SoilDryAlert
DecodedDryAlert ==
    /\ pc["mReceiver"] = "rcv_dispatch"
    /\ ValidMessage(Value(buffer["mReceiver"]))
    /\ Value(buffer["mReceiver"]).type = "SoilDryAlert"

\* the p-th command offered is a relayed SoilDryAlert for the actuator
DryRelayAt(p) ==
    /\ Len(offered) >= p
    /\ offered[p].index = "Actuator"
    /\ offered[p].message.type = "SoilDryAlert"

\* the index, among the writes on the actuator socket, of the write of the
\* p-th command offered
ActuatorWrite(p) ==
    Len(SelectSeq(SubSeq(offered, 1, p), LAMBDA c : c.index = "Actuator"))

\* the sender has called send for the p-th command offered
Attempted(p) == Len(Handled) >= p /\ Len(sent["Actuator"]) >= ActuatorWrite(p)

\* that send wrote the message
Written(p) ==
    /\ Attempted(p)
    /\ ActuatorWrite(p) >= 1
    /\ sent["Actuator"][ActuatorWrite(p)].ok

\* C8 as stated: with the actuator socket bound, a SoilDryAlert the monitor
\* receiver decodes is eventually enqueued, and eventually written on the
\* actuator socket.
C8_Original ==
    /\ (DecodedDryAlert /\ bound["Actuator"]) ~> (enq["mReceiver"] # <<>>)
    /\ \A p \in 1..MaxLive : (DryRelayAt(p) /\ bound["Actuator"]) ~> Written(p)

\* C8 amended: with the actuator socket bound, a SoilDryAlert the monitor
\* receiver decodes is eventually enqueued and the sender eventually calls
\* send for it on the actuator socket, unless the process ends first; the send
\* may fail; and the sender calls send once for each command it polled, on
\* the command's socket, in queue order.
C8_Amended ==
    /\ (DecodedDryAlert /\ bound["Actuator"])
          ~> (enq["mReceiver"] # <<>> \/ procState # "running")
    /\ \A p \in 1..MaxLive :
          (DryRelayAt(p) /\ bound["Actuator"])
              ~> (Attempted(p) \/ procState # "running")
    /\ []Routed
    /\ [](Len(offered) <= MaxLive)

\* the relayed SoilDryAlert has been written on the actuator socket, once,
\* and the queue is empty
C8_Witness ==
    /\ bound["Actuator"]
    /\ DryRelayAt(1)
    /\ Written(1)
    /\ Len(sent["Actuator"]) = 1
    /\ queue = <<>>
    /\ pc["sender"] = "poll_wait"

----------------------------------------------------------------------------
(* Properties of the receiver's error handling *)

\* the types the receiver's switch has a case for
KnownTypes == LogTypes \cup AlertTypes \cup AckTypes

\* C11: a receiver that has read a record whose magic is not 0x4657 offers
\* nothing for it, whatever its type, and goes back to the top of its loop to
\* read the next record: it does not end; no command carrying a wrong magic is
\* ever offered, written or dropped.
C11_BadMagicRejected ==
    /\ \A r \in Receivers :
          buffer[r] # None /\ ~ValidMessage(Value(buffer[r])) =>
            /\ pc[r] \in {"rcv_dispatch", "rcv_loop"}
            /\ arg[r] = None
            /\ enq[r] = <<>>
    /\ \A i \in 1..Len(offered) : ValidMessage(offered[i].message)
    /\ \A s \in Slots :
          \A i \in 1..Len(sent[s]) : ValidMessage(sent[s][i].message)

\* a receiver is back at the top of its loop after a SoilDryAlert with a
\* wrong magic, and nothing was offered
C11_Witness ==
    \E r \in Receivers :
        /\ pc[r] = "rcv_loop"
        /\ buffer[r] # None
        /\ ~ValidMessage(Value(buffer[r]))
        /\ Value(buffer[r]).type = "SoilDryAlert"
        /\ offered = <<>>
        /\ Running

\* C12 as stated: once a receiver has dispatched a record with the right
\* magic and a type its switch has no case for, the process has aborted.
C12_UnknownTypeAborts ==
    \A r \in Receivers :
        /\ buffer[r] # None
        /\ ValidMessage(Value(buffer[r]))
        /\ Value(buffer[r]).type \notin KnownTypes
        /\ pc[r] # "rcv_dispatch"
        => procState = "aborted"

\* a receiver is back at the top of its loop after a record of unknown type,
\* the process still running
C12_Witness ==
    \E r \in Receivers :
        /\ pc[r] = "rcv_loop"
        /\ buffer[r] # None
        /\ ValidMessage(Value(buffer[r]))
        /\ Value(buffer[r]).type = "Unknown"
        /\ Running

----------------------------------------------------------------------------
(* Properties of the sender's error handling *)

\* where the sender is while its loop runs
SenderLoopPcs ==
    {"poll_lock", "poll_check", "poll_wait", "poll_front", "poll_pop",
     "poll_return", "snd_send"}

\* the send calls made so far, on all sockets
Writes == Len(sent["Monitor"]) + Len(sent["Actuator"]) + Len(sent["Gateway"])

\* the sender is about to handle a command for a socket that is not connected
AtDrop == pc["sender"] = "snd_send" /\ ~bound[Value(got["sender"]).index]

\* C13: a command for a socket that is not connected is dropped: nothing is
\* ever written on such a socket, the step that drops it writes on no socket
\* and puts nothing on the queue, the sender's loop goes on, and every command
\* offered is still handled by the sender unless the process ends first.
C13_UnboundDropped ==
    /\ [](/\ \A s \in Slots : ~bound[s] => sent[s] = <<>>
          /\ dropped = SelectSeq(Handled, LAMBDA c : ~bound[c.index])
          /\ Len(Handled) = Writes + Len(dropped)
          /\ pc["sender"] \in SenderLoopPcs \cup {"unstarted"})
    /\ [][AtDrop /\ pc'["sender"] # "snd_send" =>
             /\ sent' = sent
             /\ queue' = queue
             /\ offered' = offered
             /\ dropped' = Append(dropped, Value(got["sender"]))
             /\ pc'["sender"] = "poll_lock"]_vars
    /\ \A p \in 1..MaxLive :
          (dropped # <<>> /\ Len(offered) >= p)
              ~> (Len(Handled) >= p \/ ~Running)

\* a command for the actuator, not connected, was dropped, and the command
\* offered after it has been written on the monitor socket
C13_Witness ==
    /\ ~bound["Actuator"]
    /\ Len(Handled) = 2
    /\ Handled[1].index = "Actuator"
    /\ Handled[2].index = "Monitor"
    /\ dropped = <<Handled[1]>>
    /\ Len(sent["Monitor"]) = 1
    /\ Running

\* a send has failed on some socket
SomeSendFailed == \E s \in Slots : \E i \in 1..Len(sent[s]) : ~sent[s][i].ok

\* the sender is about to call send for a command
AtSend == pc["sender"] = "snd_send" /\ bound[Value(got["sender"]).index]

\* C14: a send that fails does not end the sender's loop: send is called once
\* for each command handled for a connected socket, whether it fails or not,
\* the step puts nothing back on the queue, and every command offered is still
\* handled by the sender after a failure unless the process ends first.
C14_SendFailureSoft ==
    /\ [](/\ pc["sender"] \in SenderLoopPcs \cup {"unstarted"}
          /\ \A s \in Slots :
                Len(sent[s]) = Len(SelectSeq(Handled, LAMBDA c : c.index = s /\ bound[s]))
          /\ offered = polled \o Taken \o queue)
    /\ [][AtSend /\ pc'["sender"] # "snd_send" =>
             /\ queue' = queue
             /\ offered' = offered
             /\ Writes' = Writes + 1
             /\ pc'["sender"] = "poll_lock"]_vars
    /\ \A p \in 1..MaxLive :
          (SomeSendFailed /\ Len(offered) >= p)
              ~> (Len(Handled) >= p \/ ~Running)

\* a send on the actuator socket failed and the sender sent the next command
C14_Witness ==
    /\ Len(sent["Actuator"]) = 2
    /\ ~sent["Actuator"][1].ok
    /\ sent["Actuator"][2].ok
    /\ Len(Handled) = 2
    /\ Running

----------------------------------------------------------------------------
(* SilentSpec: a silent monitor and an actuator whose connection may break *)

\* All three sockets are connected; the monitor sends nothing, the actuator
\* acknowledges, soil levels are typed; calls on the actuator socket may fail.
Silent ==
    [wire |-> [x \in Receivers |->
                  IF x = "aReceiver"
                  THEN {MakeMessage(Magic, "AckSoilWet", 1)}
                  ELSE {}],
     lines |-> {<<"soil", 30>>},
     inputs |-> MaxLive,
     faulty |-> {"Actuator"},
     sockets |-> {[s \in Slots |-> TRUE]}]

SilentInit ==
    /\ env = Silent
    /\ QueueInit
    /\ LocalsInit(CtlThreads)
    /\ pc = [t \in CtlThreads |-> IF t = "main" THEN "run_sender" ELSE "unstarted"]
    /\ nOffers = 0
    /\ procState = "running"
    /\ bound \in env.sockets
    /\ buffer = [r \in Receivers |-> None]
    /\ garbage = [s \in Slots |-> <<>>]
    /\ nRecv = [s \in Slots |-> 0]
    /\ nShell = 0
    /\ sent = [s \in Slots |-> <<>>]
    /\ dropped = <<>>
    /\ AtRest

SilentSpec ==
    /\ SilentInit
    /\ [][Next]_vars
    /\ \A t \in CtlThreads : WF_vars(Progress(t))

\* the receiver's read of a message fails in this step
ReadFails(r) == pc[r] = "rcv_read" /\ pc'[r] = "rcv_exit"

\* C15: a failed read of a message ends the receiver that made it and nothing
\* else: the step changes no other thread, the queue or the state of the
\* process; the receiver never runs again; a receiver ends for no other
\* reason, with no offer left unfinished; the sender's loop goes on; and the
\* commands offered are still handled by the sender while the process runs.
C15_ReadFailureEndsReceiver ==
    /\ [][\A r \in Receivers : ReadFails(r) =>
             /\ procState' = procState
             /\ \A t \in CtlThreads \ {r} : pc'[t] = pc[t]
             /\ <<queue, mutex, waiting, offered, polled, arg, got, sent, dropped>>'
                   = <<queue, mutex, waiting, offered, polled, arg, got, sent, dropped>>]_vars
    /\ [][\A r \in Receivers : pc[r] = "rcv_exit" => pc'[r] = "rcv_exit"]_vars
    /\ [](\A r \in Receivers : pc[r] = "rcv_exit" =>
             /\ SocketOf(r) \in env.faulty
             /\ nRecv[SocketOf(r)] >= 1
             /\ arg[r] = None
             /\ mutex # r
             /\ pc["sender"] \in SenderLoopPcs)
    /\ \A p \in 1..MaxLive :
          ((\E r \in Receivers : pc[r] = "rcv_exit") /\ Len(offered) >= p)
              ~> (Len(Handled) >= p \/ ~Running)

\* the actuator receiver relayed an acknowledgement and its next read failed;
\* the acknowledgement was written on the monitor socket afterwards, and the
\* monitor receiver is still waiting for a message
C15_Witness ==
    /\ pc["aReceiver"] = "rcv_exit"
    /\ nRecv["Actuator"] = 2
    /\ Len(sent["Monitor"]) = 1
    /\ sent["Monitor"][1].message.type = "AckSoilWet"
    /\ pc["mReceiver"] = "rcv_read"
    /\ pc["sender"] \in SenderLoopPcs
    /\ Running

\* the monitor receiver is in receiveWithLength and no message arrives
MonitorBlocked == Running /\ pc["mReceiver"] = "rcv_read"

\* C20: a receiver inside a read holds no lock of the queue and is not
\* waiting on its condition; and every command offered is handled by the
\* sender for as long as the monitor receiver stays blocked in its read.
C20_BlockedReceiverHarmless ==
    /\ [](\A r \in Receivers : pc[r] = "rcv_read" =>
             /\ mutex # r
             /\ r \notin waiting
             /\ r \notin inCS)
    /\ \A p \in 1..MaxLive :
          (MonitorBlocked /\ Len(offered) >= p)
              ~> (Len(Handled) >= p \/ ~MonitorBlocked)

\* with the monitor receiver blocked, a command of the actuator receiver and
\* a command of the shell have both been written on the monitor socket
C20_Witness ==
    /\ MonitorBlocked
    /\ nRecv["Monitor"] = 0
    /\ Len(sent["Monitor"]) = 2
    /\ \E i, j \in 1..2 :
          /\ sent["Monitor"][i].message.type = "AckSoilWet"
          /\ sent["Monitor"][j].message.type = "ChangeSoilMoisture"

----------------------------------------------------------------------------
(* Properties of the threads of run() *)

\* the thread t of run() exists
Started(t) == pc[t] # "unstarted"

\* C16: a receiver reads the preamble on its socket once: not before it
\* starts, exactly once after its first step, and before any read of a
\* message; whatever the outcome of that read the receiver goes into its
\* message loop, and it ends only after a read of a message.
C16_PreambleOnce ==
    \A r \in Receivers :
       LET s == SocketOf(r)
       IN  /\ pc[r] \in {"unstarted", "rcv_start"} => garbage[s] = <<>> /\ nRecv[s] = 0
           /\ pc[r] \notin {"unstarted", "rcv_start"} => Len(garbage[s]) = 1
           /\ (Started(r) /\ pc[r] # "rcv_start" /\ nRecv[s] = 0)
                 => pc[r] \in {"rcv_loop", "rcv_read"}
           /\ pc[r] = "rcv_exit" => nRecv[s] >= 1

\* the preamble could not be read and the receiver has read a message
C16_Witness ==
    \E r \in Receivers :
       /\ garbage[SocketOf(r)] = <<FALSE>>
       /\ pc[r] = "rcv_dispatch"
       /\ nRecv[SocketOf(r)] = 1
       /\ Running

\* where run() is before it has made each of its threads
BeforeSender == {"run_sender"}
BeforeMonitorReceiver == BeforeSender \cup {"run_mReceiver"}
BeforeActuatorReceiver == BeforeMonitorReceiver \cup {"run_aReceiver"}

\* C17: once run() has made its threads there is a sender thread, and the
\* receiver of a slot exists exactly when that slot is Monitor or Actuator and
\* its socket was bound at construction; before run() reaches the statement
\* that makes a thread the thread does not exist; no receiver reads the
\* gateway socket, on which only run() reads the preamble, and only if bound.
C17_Threads ==
    /\ Started("sender") <=> pc["main"] \notin BeforeSender
    /\ Started("mReceiver")
          <=> (bound["Monitor"] /\ pc["main"] \notin BeforeMonitorReceiver)
    /\ Started("aReceiver")
          <=> (bound["Actuator"] /\ pc["main"] \notin BeforeActuatorReceiver)
    /\ \A r \in Receivers : SocketOf(r) # "Gateway"
    /\ nRecv["Gateway"] = 0
    /\ Len(garbage["Gateway"]) <= 1
    /\ \A s \in Slots : ~bound[s] => garbage[s] = <<>> /\ nRecv[s] = 0
    /\ procState # "aborted"

\* a controller with the monitor and the gateway connected and no actuator
\* is at its prompt: the sender and the monitor receiver run, and there is no
\* actuator receiver
C17_Witness ==
    /\ pc["main"] = "sh_prompt"
    /\ bound["Monitor"] /\ bound["Gateway"] /\ ~bound["Actuator"]
    /\ Started("sender")
    /\ pc["mReceiver"] = "rcv_read"
    /\ ~Started("aReceiver")
    /\ Len(garbage["Gateway"]) = 1
    /\ Running

----------------------------------------------------------------------------
(* Properties of the path from offer to the sockets *)

\* the commands the sender has written or dropped
Settled == Writes + Len(dropped)

\* the commands for slot s among the first n offered
OfferedFor(s, n) == SelectSeq(SubSeq(offered, 1, n), LAMBDA c : c.index = s)

\* C18: the sender consumes each command offered once: what poll has given it
\* never exceeds what was offered, each command it has finished with had one
\* outcome, a send on the socket of its destination or a drop, and every
\* message sent on a socket is the message of a command offered for that
\* socket, sent no more often than it was offered.
C18_ConsumedOnce ==
    /\ Len(polled) + Len(Taken) + Len(queue) = Len(offered)
    /\ Settled = Len(Handled)
    /\ \A s \in Slots :
          /\ Len(sent[s]) <= Len(OfferedFor(s, Len(offered)))
          /\ bound[s] =>
                MessagesOf(sent[s]) = MessagesOf(OfferedFor(s, Len(Handled)))
          /\ ~bound[s] => sent[s] = <<>>
    /\ Len(dropped) = Len(SelectSeq(Handled, LAMBDA c : ~bound[c.index]))

\* two commands were offered, one for each device; the sender has sent each
\* once, on its socket, and the queue is empty
C18_Witness ==
    /\ Len(offered) = 2
    /\ Handled = offered
    /\ queue = <<>>
    /\ MessagesOf(sent["Monitor"]) = MessagesOf(OfferedFor("Monitor", 2))
    /\ MessagesOf(sent["Actuator"]) = MessagesOf(OfferedFor("Actuator", 2))
    /\ Len(sent["Monitor"]) = 1
    /\ Len(sent["Actuator"]) = 1
    /\ Running

\* C19: the sender handles commands in the order of their offers: what poll
\* has returned is a prefix of what was offered, the sender holds at most one
\* command that it has not yet written or dropped, and that command is the
\* next in the order of the offers, so a command gets its outcome before
\* every command offered after it; and a receiver reads its next message only
\* after offer() has returned for the message before, so its relayed messages
\* are offered in the order it read them.
C19_InOrder ==
    /\ polled = SubSeq(offered, 1, Len(polled))
    /\ Len(polled) - Settled \in {0, 1}
    /\ pc["sender"] = "snd_send" =>
          /\ Len(polled) = Settled + 1
          /\ Value(got["sender"]) = offered[Settled + 1]
    /\ \A r \in Receivers :
          /\ pc[r] \in {"rcv_loop", "rcv_read", "rcv_dispatch", "rcv_exit"} =>
                /\ arg[r] = None
                /\ mutex # r
          /\ (pc[r] = "rcv_loop" /\ buffer[r] # None /\ Relay(Value(buffer[r])) # None) =>
                /\ enq[r] = <<Value(Relay(Value(buffer[r])))>>
                /\ \E k \in 1..Len(offered) : offered[k] = enq[r][1]

\* two different commands for the same socket were offered and the sender has
\* sent both on it, the first offered first
C19_Witness ==
    /\ Len(offered) = 2
    /\ offered[1] # offered[2]
    /\ Handled = offered
    /\ offered[1].index = offered[2].index
    /\ MessagesOf(sent[offered[1].index]) = <<offered[1].message, offered[2].message>>
    /\ Running

----------------------------------------------------------------------------
(* EncodeSpec: makeCoAPRequestMessage called with any moisture on any build *)

\* the 16-bit halves the moisture values are made of
Halves == {0, 1, 100, 255, 256, 4660, 65535}

\* the moisture values the function is called with: from 0 to 2^32 - 1
Moistures == {U32(hi, lo) : hi \in Halves, lo \in Halves}

EncodeInit ==
    /\ QueueInit
    /\ LocalsInit({"main"})
    /\ pc = [t \in {"main"} |-> "enc_header"]
    /\ nOffers = 0
    /\ NoController
    /\ NoAccess
    /\ request \in {Zeroed, Stale}
    /\ ptr = 0
    /\ moisture \in Moistures
    /\ host \in Hosts

EncodeNext ==
    \/ EncHeader
    \/ EncHost
    \/ EncPort
    \/ EncPath
    \/ EncMarker
    \/ EncPayload
    \/ EncAssert

EncodeSpec == EncodeInit /\ [][EncodeNext]_vars

\* the function has returned
Encoded == pc["main"] = "enc_done"

\* the uint32_t that a machine of the given byte order reads from four bytes
Load32(b, order) ==
    IF order = "little"
    THEN U32(b[3] + 256 * b[4], b[1] + 256 * b[2])
    ELSE U32(256 * b[1] + b[2], 256 * b[3] + b[4])

\* the byte of the buffer at an offset
ByteAt(offset) == request[offset + 1]

\* the bytes of the buffer from an offset
BytesAt(offset, n) == SubSeq(request, offset + 1, offset + n)

\* C24: for every moisture value the size assertion does not fire and the
\* function returns with ptr at the end of the 32-byte buffer, every byte of
\* which it has written; the four bytes at offsets 28..31, read as a uint32_t
\* by the machine, are the moisture value; and bytes 0 and 1 are those of the
\* request for any other value on that machine, byte 1 being the POST code.
C24_Payload ==
    /\ procState = "running"
    /\ Len(request) = 32
    /\ ptr <= 32
    /\ Encoded =>
          /\ ptr = 32
          /\ Load32(BytesAt(28, 4), host.order) = moisture
          /\ \A v \in Moistures :
                BytesAt(0, 2) = SubSeq(makeCoAPRequestMessage(Stale, v, host).buffer, 1, 2)
          /\ \A b \in {Zeroed, Stale} :
                request = makeCoAPRequestMessage(b, moisture, host).buffer
          /\ ByteAt(1) = kPost

\* the request for the value 0x12340064 on a little-endian machine is built
C24_Witness ==
    /\ Encoded
    /\ moisture = U32(4660, 100)
    /\ host = LittleEndian
    /\ BytesAt(28, 4) = <<100, 0, 52, 18>>
    /\ ptr = 32

\* the option number and the length that an option byte carries
OptionDelta(b) == b \div 16
OptionLength(b) == b % 16

\* C25: the options are URI-Host at offset 4, URI-Port at offset 14 and
\* URI-Path at offset 17, each one byte carrying the difference of its option
\* number from the previous option's in the high nibble and its length in the
\* low nibble, followed by its bytes: "localhost", the port 10086 most
\* significant byte first, "/moisture"; the marker 0xFF is at offset 27; and
\* the function reaches each of them with ptr at that offset.
C25_Options ==
    /\ kURIHost < 16 /\ kURIPort - kURIHost < 16 /\ kURIPath - kURIPort < 16
    /\ pc["main"] = "enc_host" => ptr = 4
    /\ pc["main"] = "enc_port" => ptr = 14
    /\ pc["main"] = "enc_path" => ptr = 17
    /\ pc["main"] = "enc_marker" => ptr = 27
    /\ pc["main"] = "enc_payload" => ptr = 28
    /\ Encoded =>
          /\ OptionDelta(ByteAt(4)) = kURIHost
          /\ OptionLength(ByteAt(4)) = 9
          /\ BytesAt(5, 9) = Address
          /\ OptionDelta(ByteAt(14)) = kURIPort - kURIHost
          /\ OptionLength(ByteAt(14)) = 2
          /\ 256 * ByteAt(15) + ByteAt(16) = Port
          /\ OptionDelta(ByteAt(17)) = kURIPath - kURIPort
          /\ OptionLength(ByteAt(17)) = 9
          /\ BytesAt(18, 9) = Path
          /\ ByteAt(27) = 255

\* a request has been built on a little-endian machine over a buffer that was
\* not initialised: the option bytes are 0x39, 0x42 and 0x49
C25_Witness ==
    /\ Encoded
    /\ host = LittleEndian
    /\ ByteAt(4) = 57 /\ ByteAt(14) = 66 /\ ByteAt(17) = 73
    /\ BytesAt(15, 2) = <<39, 102>>
    /\ ByteAt(27) = 255

----------------------------------------------------------------------------
(* GatewaySpec: the controller with the shell's gateway commands *)

\* The monitor is connected and silent, the actuator is not connected, the
\* gateway is connected or not; `coap` and `soil 30` are typed; calls on the
\* gateway socket may fail.
Probing ==
    [wire |-> [x \in Receivers |-> {}],
     lines |-> {<<"coap", 0>>, <<"soil", 30>>},
     inputs |-> MaxInputs,
     faulty |-> {"Gateway"},
     sockets |-> {b \in Sockets : b["Monitor"] /\ ~b["Actuator"]}]

\* As Probing, but experiments are run: `gateway n d` is typed.
Measuring ==
    [wire |-> [x \in Receivers |-> {}],
     lines |-> {<<"gateway", n>> : n \in 1..MaxTrials},
     inputs |-> MaxTalk,
     faulty |-> {"Gateway"},
     sockets |-> {b \in Sockets : b["Monitor"] /\ ~b["Actuator"]}]

\* the gateway commands are typed, or the monitor sends an alert
GatewayEnvironments ==
    {Probing, Measuring, Talks("mReceiver", {MakeMessage(Magic, "SoilDryAlert", 1)})}

GatewayInit ==
    /\ env \in GatewayEnvironments
    /\ QueueInit
    /\ LocalsInit(CtlThreads)
    /\ pc = [t \in CtlThreads |-> IF t = "main" THEN "run_sender" ELSE "unstarted"]
    /\ nOffers = 0
    /\ procState = "running"
    /\ bound \in env.sockets
    /\ buffer = [r \in Receivers |-> None]
    /\ garbage = [s \in Slots |-> <<>>]
    /\ nRecv = [s \in Slots |-> 0]
    /\ nShell = 0
    /\ sent = [s \in Slots |-> <<>>]
    /\ dropped = <<>>
    /\ AtRest

GatewayStep ==
    \/ ShellGateway
    \/ CoapMake
    \/ GatewaySend
    \/ GatewayRecv
    \/ ExpMake
    \/ ExpLoop
    \/ ExpRecord
    \/ ExpReport

GatewayNext ==
    \/ \E t \in CtlThreads : QueueStep(t)
    \/ \E r \in Receivers : ReceiverStep(r)
    \/ SenderSend
    \/ MainStep
    \/ GatewayStep

GatewaySpec == GatewayInit /\ [][GatewayNext]_vars

----------------------------------------------------------------------------
(* Properties of the gateway round trip *)

\* where run() is inside sendRecvCoAPMessageOnce or runGatewayExperiment
GatewayPcs ==
    {"coap_make", "gw_send", "gw_recv", "exp_make", "exp_loop", "exp_record",
     "exp_report"}

\* the calls of one round trip: those of one trial of one line
TripCalls(line, k) == SelectSeq(gwio, LAMBDA c : c.line = line /\ c.trial = k)

\* the round trips begun
Trips == {<<gwio[i].line, gwio[i].trial>> : i \in 1..Len(gwio)}

\* C22: a round trip is one send of the 32-byte request and then, if the send
\* succeeded, one receive of the reply, of fixed length, both made by the
\* thread of run(); the calls on the socket alternate, send first; and no step
\* of a round trip touches the queue: the thread is not inside offer or poll
\* and its steps leave the queue as it is.
C22_RoundTrip ==
    /\ [](/\ \A t \in Trips :
                LET calls == TripCalls(t[1], t[2])
                IN  /\ Len(calls) <= 2
                    /\ calls[1].op = "send" /\ calls[1].len = 32
                    /\ Len(calls) = 2 =>
                          /\ calls[1].ok
                          /\ calls[2].op = "recv"
                          /\ calls[2].len = ReplyLength
          /\ \A i \in 1..Len(gwio) : gwio[i].op = (IF i % 2 = 1 THEN "send" ELSE "recv")
          /\ readers["Gateway"] \subseteq {"main"}
          /\ writers["Gateway"] \subseteq {"main"}
          /\ At("main", "gw_send") => Len(request) = 32 /\ Len(gwio) % 2 = 0
          /\ At("main", "gw_recv") => Len(gwio) % 2 = 1
          /\ pc["main"] \in GatewayPcs =>
                arg["main"] = None /\ mutex # "main" /\ "main" \notin waiting)
    /\ [][(pc["main"] \in GatewayPcs /\ pc'["main"] # pc["main"]) =>
             <<queue, offered, polled, mutex, waiting, arg>>'
                = <<queue, offered, polled, mutex, waiting, arg>>]_vars

\* `coap` was typed with the gateway connected and the round trip is over: one
\* send and one receive were made, both succeeded, and the shell is back at
\* its prompt
C22_Witness ==
    /\ bound["Gateway"]
    /\ Len(gwio) = 2
    /\ gwio[1].op = "send" /\ gwio[1].ok /\ gwio[1].trial = 0
    /\ gwio[2].op = "recv" /\ gwio[2].ok /\ gwio[2].trial = 0
    /\ pc["main"] = "sh_prompt"
    /\ Running

\* C29: a call on the gateway socket that fails is the last call made on it
\* and the process has aborted: after a failed send no receive is made, the
\* thread of run() stays where it was, and no thread takes another step.
C29_GatewayFailureAborts ==
    /\ [](\A i \in 1..Len(gwio) :
             ~gwio[i].ok =>
                /\ i = Len(gwio)
                /\ procState = "aborted"
                /\ pc["main"] = (IF gwio[i].op = "send" THEN "gw_send" ELSE "gw_recv"))
    /\ [][procState = "aborted" => vars' = vars]_vars

\* the send of a round trip failed while the sender was about to send a
\* command typed before `coap`: the command is never sent
C29_Witness ==
    /\ bound["Gateway"]
    /\ gwio # <<>>
    /\ gwio[Len(gwio)].op = "send"
    /\ ~gwio[Len(gwio)].ok
    /\ procState = "aborted"
    /\ pc["sender"] = "snd_send"
    /\ sent["Monitor"] = <<>>

\* the calls made on the gateway socket for one line of the shell
LineCalls(line) == SelectSeq(gwio, LAMBDA c : c.line = line)

\* the round trips of the line being executed that have returned
TripsDone ==
    Len(SelectSeq(gwio, LAMBDA c : c.line = nShell /\ c.op = "recv" /\ c.ok))

\* the round trips of the line being executed that have been started
TripsBegun == Len(SelectSeq(gwio, LAMBDA c : c.line = nShell /\ c.op = "send"))

\* C23: an experiment of N trials makes N round trips one after another:
\* while it runs a sample has been recorded for every round trip that
\* returned, a round trip is begun only when the one before has returned and
\* its sample is recorded, and never more than N are made; when the loop ends
\* N samples are held, of which min and max are the least and the greatest
\* and medium lies between them; and what is reported is N samples, after
\* exactly N sends and N receives in turn, with minimum <= median <= maximum.
C23_Experiment ==
    /\ (Running /\ trials > 0 /\ pc["main"] \in GatewayPcs \ {"exp_make"}) =>
          /\ Len(durations) = trial
          /\ trial <= trials
          /\ TripsDone = trial + (IF pc["main"] = "exp_record" THEN 1 ELSE 0)
          /\ TripsBegun = trial + (IF pc["main"] \in {"gw_recv", "exp_record"} THEN 1 ELSE 0)
          /\ pc["main"] \in {"gw_send", "gw_recv", "exp_record"} => trial < trials
    /\ At("main", "exp_report") =>
          /\ Len(durations) = trials
          /\ \A i \in 1..Len(durations) :
                min(durations) <= durations[i] /\ durations[i] <= max(durations)
          /\ \E i \in 1..Len(durations) : durations[i] = min(durations)
          /\ \E i \in 1..Len(durations) : durations[i] = max(durations)
          /\ \E i \in 1..Len(durations) : durations[i] = medium(durations)
    /\ report # None =>
          LET r == Value(report)
              calls == LineCalls(r.line)
          IN  /\ r.trials >= 1
              /\ r.samples = r.trials
              /\ Len(calls) = 2 * r.trials
              /\ \A i \in 1..Len(calls) :
                    /\ calls[i].ok
                    /\ calls[i].trial = (i + 1) \div 2
                    /\ calls[i].op = (IF i % 2 = 1 THEN "send" ELSE "recv")
              /\ r.min <= r.medium
              /\ r.medium <= r.max

\* `gateway 3 0` has run with the gateway connected: three round trips were
\* made, three samples taken, and the report has minimum < median < maximum
C23_Witness ==
    /\ bound["Gateway"]
    /\ report # None
    /\ Value(report).trials = 3
    /\ Value(report).samples = 3
    /\ Value(report).min = 1
    /\ Value(report).medium = 2
    /\ Value(report).max = 3
    /\ Len(gwio) = 6
    /\ pc["main"] = "sh_prompt"
    /\ Running

\* C28 as stated: with no gateway socket, no call is made through
\* sockets[kGateway], whatever is typed, and the process does not end by a
\* failure.
C28_UnboundGatewayUntouched ==
    ~bound["Gateway"] =>
        /\ gwio = <<>>
        /\ readers["Gateway"] = {} /\ writers["Gateway"] = {}
        /\ procState \notin {"aborted", "crashed"}

\* `coap` or `gateway n d` was typed with no gateway socket, and run() is
\* about to call send through the empty optional
C28_Witness ==
    /\ ~bound["Gateway"]
    /\ At("main", "gw_send")
    /\ gwio = <<>>

\* where run() is before it has read the preamble of the gateway
BeforeGatewayGarbage == BeforeActuatorReceiver \cup {"run_gateway"}

\* C30: with a gateway socket, the preamble has been read on it, once, by the
\* thread of run(), exactly when run() is past that statement, which is after
\* the threads were made and before any line is read or any round trip
\* begun; whether the read failed makes no difference to where run() goes;
\* with no gateway socket no preamble is read on it.
C30_GatewayPreamble ==
    /\ bound["Gateway"] =>
          /\ pc["main"] \in BeforeGatewayGarbage => garbage["Gateway"] = <<>>
          /\ pc["main"] \notin BeforeGatewayGarbage => Len(garbage["Gateway"]) = 1
          /\ garbage["Gateway"] # <<>> => readers["Gateway"] = {"main"}
    /\ ~bound["Gateway"] => garbage["Gateway"] = <<>>
    /\ pc["main"] \in BeforeGatewayGarbage => nShell = 0 /\ gwio = <<>>
    /\ pc["main"] = "run_gateway" =>
          /\ Started("sender")
          /\ \A r \in Receivers : Started(r) <=> bound[SocketOf(r)]
    /\ pc["main"] \in GatewayPcs => pc["main"] \notin BeforeGatewayGarbage

\* the preamble of the gateway could not be read, and a round trip was made
\* afterwards all the same
C30_Witness ==
    /\ bound["Gateway"]
    /\ garbage["Gateway"] = <<FALSE>>
    /\ Len(gwio) = 2
    /\ gwio[2].ok
    /\ Running

\* C21: no socket is used by two threads in the same direction: every
\* receive on the monitor or actuator socket is made by that socket's
\* receiver and every send on it by the sender; every call on the gateway
\* socket is made by the thread of run().
C21_OneReaderOneWriter ==
    /\ \A s \in Slots : Cardinality(readers[s]) <= 1 /\ Cardinality(writers[s]) <= 1
    /\ \A r \in Receivers :
          /\ readers[SocketOf(r)] \subseteq {r}
          /\ writers[SocketOf(r)] \subseteq {"sender"}
    /\ readers["Gateway"] \subseteq {"main"}
    /\ writers["Gateway"] \subseteq {"main"}

\* the monitor socket has been read by its receiver and written by the
\* sender, and the gateway socket read and written by the thread of run()
C21_Witness ==
    /\ readers["Monitor"] = {"mReceiver"}
    /\ writers["Monitor"] = {"sender"}
    /\ readers["Gateway"] = {"main"}
    /\ writers["Gateway"] = {"main"}
    /\ Len(gwio) = 2
    /\ bound["Gateway"]
    /\ Running

----------------------------------------------------------------------------
(* Properties of the destinations of commands *)

\* the command receiver r has made from the message it read and has not yet
\* pushed, if any
Offering(r) == pc[r] \in {"offer_lock", "offer_push"} /\ arg[r] # None

\* C26: a command a receiver makes from a message it read is never for the
\* device whose socket the receiver reads.
C26_NeverRelayedBack ==
    \A r \in Receivers : Offering(r) => Value(arg[r]).index # SocketOf(r)

\* the actuator receiver has read a SoilDryAlert from the actuator socket and
\* is offering it for the actuator
C26_Witness ==
    /\ Offering("aReceiver")
    /\ Value(arg["aReceiver"]).message.type = "SoilDryAlert"
    /\ Value(arg["aReceiver"]).index = "Actuator"
    /\ Running

\* the destination that goes with a type of message
DestinationOf(type) ==
    IF type \in {"SoilDryAlert", "SoilWetAlert", "ChangeWaterStatus"} THEN "Actuator"
    ELSE IF type \in {"AckSoilWet", "ChangeSoilMoisture"} THEN "Monitor"
    ELSE "Gateway"

\* C27: every command that has been in the queue is for the monitor or the
\* actuator, the one that goes with the type of its message, and so is every
\* command that is being offered or that the sender holds; the sender has
\* made no call on the gateway socket and has dropped nothing for it.
C27_Destinations ==
    /\ \A i \in 1..Len(offered) :
          /\ offered[i].index \in {"Monitor", "Actuator"}
          /\ offered[i].index = DestinationOf(offered[i].message.type)
    /\ \A i \in 1..Len(queue) : queue[i].index = DestinationOf(queue[i].message.type)
    /\ \A t \in CtlThreads :
          arg[t] # None => Value(arg[t]).index = DestinationOf(Value(arg[t]).message.type)
    /\ sent["Gateway"] = <<>>
    /\ "sender" \notin writers["Gateway"]
    /\ \A i \in 1..Len(dropped) : dropped[i].index # "Gateway"

\* with the gateway connected and the actuator too, `water 1` was typed and
\* the sender has written the command on the actuator socket
C27_Witness ==
    /\ bound["Gateway"] /\ bound["Actuator"]
    /\ Len(offered) = 1
    /\ offered[1].message.type = "ChangeWaterStatus"
    /\ offered[1].index = "Actuator"
    /\ Handled = offered
    /\ Len(sent["Actuator"]) = 1
    /\ writers["Actuator"] = {"sender"}
    /\ Running

----------------------------------------------------------------------------
(* Properties of the `exit` command *)

\* run() has left its command loop and the process no longer runs
Exited == pc["main"] = "run_return" /\ procState # "running"

\* C31: once `exit` has taken run() out of its command loop, run() returns 0
\* to its caller: the threads it started and never joined do not stand in the
\* way, whether they are still running or not, and whatever is in the queue.
C31_ExitReturns == Exited => procState = "returned"

\* `exit` was typed with the sender started and a command still in the queue,
\* and the process was ended by std::terminate() instead of returning
C31_Witness ==
    /\ Exited
    /\ procState = "terminated"
    /\ "sender" \in Joinable
    /\ queue # <<>>

----------------------------------------------------------------------------
(* Properties of the outbound-only types *)

\* receiver r holds a record with the right magic and an outbound-only type
HoldsOutbound(r) ==
    /\ buffer[r] # None
    /\ Value(buffer[r]).magic = Magic
    /\ Value(buffer[r]).type \in OutboundTypes

\* receiver r is inside LinkedBlockingQueue::offer
InOffer(r) == pc[r] \in {"offer_lock", "offer_push", "offer_notify", "offer_unlock"}

\* C32: a receiver that has read a record with the right magic and the type
\* ChangeSoilMoisture or ChangeWaterStatus makes no Command of it and does not
\* call offer: its step from the switch takes it back to the top of its loop
\* and leaves the queue, the record of what was offered and every socket as
\* they were; and no receiver ever writes on a socket.
C32_OutboundNotRelayed ==
    /\ [](\A r \in Receivers :
             /\ HoldsOutbound(r) => ~InOffer(r)
             /\ \A s \in Slots : r \notin writers[s])
    /\ [][\A r \in Receivers :
             (At(r, "rcv_dispatch") /\ HoldsOutbound(r) /\ pc'[r] # pc[r]) =>
                /\ pc'[r] = "rcv_loop"
                /\ arg'[r] = arg[r]
                /\ queue' = queue
                /\ offered' = offered
                /\ sent' = sent
                /\ writers' = writers]_vars

\* the actuator receiver has read a valid ChangeWaterStatus and is back at the
\* top of its loop, with nothing offered and nothing written
C32_Witness ==
    /\ At("aReceiver", "rcv_loop")
    /\ HoldsOutbound("aReceiver")
    /\ Value(buffer["aReceiver"]).type = "ChangeWaterStatus"
    /\ offered = <<>>
    /\ \A s \in Slots : sent[s] = <<>>

====
